---- MODULE Spec2Model ----
(***************************************************************************)
(* A model of the phase state store (PipelineController on a SQLite file   *)
(* shared by several processes).                                           *)
(*                                                                         *)
(* The database engine is modelled by what the code relies on: one write   *)
(* lock per file, a write transaction that works on a private copy of the  *)
(* table until COMMIT, readers that see the last committed table, and a    *)
(* busy timeout that turns a held lock into "database is locked".          *)
(***************************************************************************)
EXTENDS Integers, Sequences, FiniteSets, TLC

(* ------------------------------- bounds -------------------------------- *)
NumProcs == 2        \* processes sharing the configuration database file
MaxRows == 4         \* pipeline_config rows the model lets the table grow to
MaxFaults == 1       \* statement failures the environment injects in a run
MaxClock == 1        \* ticks of the one-second clock behind datetime('now')
MaxConns == 1        \* open connections counted per process

(* -------------------------- program constants -------------------------- *)
max_retries == 5
retry_delay_ms == 100

Procs == 1..NumProcs
NoneVal == "None"

\* The set_pipeline calls of the model: (pipeline_type, created_by, reason),
\* NoneVal where the caller leaves the default.
SetCalls == {<<"validated", NoneVal, NoneVal>>, <<"schematized", "user", "rollout">>}

(* ------------------------------- errors -------------------------------- *)
NoErr == [cls |-> "none", msg |-> ""]
ErrLocked == [cls |-> "OperationalError", msg |-> "database is locked"]
ErrDisk == [cls |-> "OperationalError", msg |-> "disk I/O error"]
ErrIntegrity == [cls |-> "IntegrityError", msg |-> "constraint failed"]
InjectedErrors == {ErrLocked, ErrDisk, ErrIntegrity}

\* "locked" in str(e)
LockedInMsg(e) == e.msg \in {"database is locked", "database table is locked"}

VARIABLES
    tableExists,  \* pipeline_config has been created in the file
    rows,         \* committed pipeline_config, in id order (id = position)
    lock,         \* holder of the file's write lock, 0 when free
    txn,          \* the lock holder's uncommitted copy of pipeline_config
    now,          \* the clock datetime('now') reads
    faults,       \* statement failures injected so far
    pc,           \* where each process is
    op,           \* the operation each process is running
    args,         \* arguments of the running set_pipeline
    attempt,      \* loop variable of the retry loop
    slept,        \* delays the running call has slept, in order
    err,          \* last error raised inside the running call
    outcome,      \* how the last call ended
    wrote,        \* changes of the committed table made by the running call
    window,       \* ids that were the current row while the running get ran
    lastSet,      \* id of the row of the last committed set_pipeline, 0 if none
    conns,        \* connections each process has open to the file, up to MaxConns
    hist,         \* the last get_history call and what it returned
    \* PipelineManager (pipeline_manager.py) on its own database file
    mgrRows,      \* its committed pipeline_config
    mgrHint,      \* PIPELINE_TYPE in the environment of each instance, or NoneVal
    mgrLog,       \* the set_pipeline_type calls committed so far, in order
    mgrGot,       \* what the last get_current_config of each instance returned
    mgrExecs,     \* its pipeline_executions table, in insertion order (id = position)
    mgrHistory,   \* what the last get_execution_history returned, and for which call
    \* SensorDatabaseReader and the sensor database
    sensorPath,   \* the path of the sensor database of this deployment
    sensorExists, \* the sensor database file exists
    sensorTables, \* names of the tables in the sensor database file
    ctorOutcome,  \* how PipelineController(<path of the sensor database>) ended
    sensorRows,   \* the rows of sensor_readings, in insertion order
    produced,     \* rows the external producer has inserted
    rdPc,         \* where the reader's operation is
    rdCall,       \* the reader method the caller invoked and its query
    rdStmt,       \* what the caller runs on the scoped connection
    rdAttempt,    \* loop variable of get_connection
    rdSlept,      \* delays get_connection has slept, in order
    rdConn,       \* the connection get_connection holds open, or NoConn
    rdOpen,       \* connections to the sensor database open in the reader's process
    rdTrace,      \* results of the sqlite3.connect calls of the running operation
    rdEntered,    \* the caller's code has started in the running operation
    rdFaults,     \* connect failures injected so far
    rdOutcome,    \* how the reader's last operation ended
    rdVerified,   \* what the running verify_connection returned, or NotVerified
    \* stream_sensor_data
    stPc,         \* where the stream is: idle, running, ended, failed
    stBatch,      \* batch_size of the stream
    stOffset,     \* the offset variable of the generator
    stYielded,    \* the batches yielded so far, in order
    stSnapshot,   \* the rows of the table when the stream started
    stTurn,       \* parity of the number of turns the while loop has made
    stRead,       \* the last direct read_sensor_data call and what it returned
    \* the phase router of the uploader
    rtPhase,      \* current_pipeline_type
    rtBatch,      \* the batch read for the next call of the router
    rtPc,         \* idle, or done when the router has returned
    rtValid,      \* the valid list the router returned
    rtInvalid,    \* the invalid list the router returned
    rtRaised,     \* the router raised instead of returning
    rtBucket,     \* the routing outcome of the phase, NoneVal when it has none
    rtAt,         \* the clock reading of the router's call
    \* pipeline_metadata
    mdConfig,     \* the configuration dict: pairs of key and value, in insertion order
    mdEnv,        \* PIPELINE_VERSION in the environment, or NoneVal
    mdPc,         \* idle, or done when create_pipeline_metadata has returned
    mdCall,       \* the arguments and readings of the running call
    mdOut         \* the metadata the call returned

storeVars == <<tableExists, rows, lock, txn, now, faults>>
procVars == <<pc, op, args, attempt, slept, err, outcome, wrote, window, lastSet, conns, hist>>
mgrVars == <<mgrRows, mgrHint, mgrLog, mgrGot, mgrExecs, mgrHistory>>
stVars == <<stPc, stBatch, stOffset, stYielded, stSnapshot, stTurn, stRead>>
rdOnly == <<sensorPath, sensorExists, sensorTables, ctorOutcome, sensorRows, produced, rdPc, rdCall,
           rdStmt, rdAttempt, rdSlept, rdConn, rdOpen, rdTrace, rdEntered, rdFaults, rdOutcome,
           rdVerified>>
rdVars == <<rdOnly, stVars>>
mdVars == <<mdConfig, mdEnv, mdPc, mdCall, mdOut>>
rtVars == <<rtPhase, rtBatch, rtPc, rtValid, rtInvalid, rtRaised, rtBucket, rtAt>>
vars == <<tableExists, rows, lock, txn, now, faults,
          pc, op, args, attempt, slept, err, outcome, wrote, window, lastSet, conns, hist,
          mgrVars, rdVars, rtVars, mdVars>>

(* ------------------------------ the table ------------------------------ *)
NoArgs == [pipeline_type |-> NoneVal, created_by |-> NoneVal, reason |-> NoneVal]
NoDict == [pipeline_type |-> NoneVal, created_at |-> 0 - 1,
           created_by |-> NoneVal, reason |-> NoneVal]
NoOutcome == [kind |-> "none", err |-> NoErr, dict |-> NoDict, at |-> ""]
NoHist == [taken |-> FALSE, limit |-> 0, n |-> 0, result |-> <<>>]

ActiveIds(t) == {i \in DOMAIN t : t[i].is_active = 1}

SetMax(S) == CHOOSE x \in S : \A y \in S : y <= x

\* INSERT INTO pipeline_config (...) VALUES (?, datetime('now'), ?, ?, 1)
InsertRow(t, ptype, by, reason, ts) ==
    Append(t, [id |-> Len(t) + 1, pipeline_type |-> ptype, created_at |-> ts,
               created_by |-> by, reason |-> reason, is_active |-> 1])

\* Deactivate as a DELETE of the active rows instead of the flag flip.
DeactivateByDelete(t) == SelectSeq(t, LAMBDA r : r.is_active = 0)

\* UPDATE pipeline_config SET is_active = 0 WHERE is_active = 1
Deactivate(t) ==
    [i \in DOMAIN t |-> IF t[i].is_active = 1 THEN [t[i] EXCEPT !.is_active = 0] ELSE t[i]]

\* dict(row) of SELECT pipeline_type, created_at, created_by, reason
RowDict(r) ==
    [pipeline_type |-> r.pipeline_type, created_at |-> r.created_at,
     created_by |-> r.created_by, reason |-> r.reason]

\* The built-in answer of get_current_pipeline when no row is active; its
\* created_at is datetime.now() of the call.
FallbackDict(ts) ==
    [pipeline_type |-> "raw", created_at |-> ts,
     created_by |-> "system", reason |-> "Default configuration"]

\* SELECT ... WHERE is_active = 1 ORDER BY id DESC LIMIT 1, then the row or
\* the built-in default.
SelectCurrent(t, ts) ==
    IF ActiveIds(t) # {}
    THEN [kind |-> "row", err |-> NoErr, dict |-> RowDict(t[SetMax(ActiveIds(t))]), at |-> ""]
    ELSE [kind |-> "fallback", err |-> NoErr, dict |-> FallbackDict(ts), at |-> ""]

\* Id of the row get_current_pipeline would answer with, 0 if none is active.
TopId(t) == IF ActiveIds(t) = {} THEN 0 ELSE SetMax(ActiveIds(t))

(* ------------------------------ retry loop ----------------------------- *)
\* ShouldRetry without the test on the attempt number.
ShouldRetryEveryAttempt(e, a) ==
    /\ e.cls = "OperationalError"
    /\ LockedInMsg(e)

\* ShouldRetry without the test on the message.
ShouldRetryAnyOperationalError(e, a) ==
    /\ e.cls = "OperationalError"
    /\ a < max_retries - 1

\* if "locked" in str(e) and attempt < max_retries - 1  (inside
\* except sqlite3.OperationalError)
ShouldRetry(e, a) ==
    /\ e.cls = "OperationalError"
    /\ LockedInMsg(e)
    /\ a < max_retries - 1

\* retry_delay * (2**attempt)
RetryDelay(a) == retry_delay_ms * (2 ^ a)

StoreInit ==
    /\ tableExists = FALSE
    /\ rows = <<>>
    /\ lock = 0
    /\ txn = <<>>
    /\ now = 0
    /\ faults = 0
    /\ pc = [p \in Procs |-> "new"]
    /\ op = [p \in Procs |-> "init"]
    /\ args = [p \in Procs |-> NoArgs]
    /\ attempt = [p \in Procs |-> 0]
    /\ slept = [p \in Procs |-> <<>>]
    /\ err = [p \in Procs |-> NoErr]
    /\ outcome = [p \in Procs |-> NoOutcome]
    /\ wrote = [p \in Procs |-> 0]
    /\ window = [p \in Procs |-> {}]
    /\ lastSet = 0
    /\ conns = [p \in Procs |-> 0]
    /\ hist = NoHist

\* A pipeline_config table written by an earlier version of the program,
\* before the columns created_by, reason and is_active existed.
MaxLegacyRows == 2   \* rows of a table that predates the is_active column
LegacyPhases == <<"raw", "validated">>
LegacyRow(i, full) ==
    IF full
    THEN [id |-> i, pipeline_type |-> LegacyPhases[((i - 1) % 2) + 1], created_at |-> 0,
          created_by |-> "system", reason |-> NoneVal]
    ELSE [id |-> i, pipeline_type |-> LegacyPhases[((i - 1) % 2) + 1], created_at |-> 0]
LegacyTables ==
    {[i \in 1..n |-> LegacyRow(i, full)] : n \in 0..MaxLegacyRows, full \in BOOLEAN}

\* The store on a file that holds a legacy table.
StoreInitLegacy ==
    /\ tableExists = TRUE
    /\ rows \in LegacyTables
    /\ lock = 0
    /\ txn = <<>>
    /\ now = 0
    /\ faults = 0
    /\ pc = [p \in Procs |-> "new"]
    /\ op = [p \in Procs |-> "init"]
    /\ args = [p \in Procs |-> NoArgs]
    /\ attempt = [p \in Procs |-> 0]
    /\ slept = [p \in Procs |-> <<>>]
    /\ err = [p \in Procs |-> NoErr]
    /\ outcome = [p \in Procs |-> NoOutcome]
    /\ wrote = [p \in Procs |-> 0]
    /\ window = [p \in Procs |-> {}]
    /\ lastSet = 0
    /\ conns = [p \in Procs |-> 0]
    /\ hist = NoHist

\* Bookkeeping every step of process p shares: the changes p made to the
\* committed table, and the current rows the running reads of the other
\* processes overlapped. wp is p's own window after the step.
Track(p, wp) ==
    /\ wrote' = [wrote EXCEPT ![p] = @ + (IF rows' # rows THEN 1 ELSE 0)]
    /\ window' = [q \in Procs |->
                    IF q = p THEN wp
                    ELSE IF op[q] = "get" /\ pc[q] \in {"read", "sleep"} /\ rows' # rows
                         THEN window[q] \cup {TopId(rows')}
                         ELSE window[q]]

\* Rows still to come from work already started: set_pipeline calls under
\* way and initialisations that may insert the default row.
Pending ==
    Cardinality({q \in Procs : op[q] = "set" /\ pc[q] # "done"})
    + Cardinality({q \in Procs : pc[q] \in {"new", "init_count", "init_insert"}})

(* ----------------------------- connections ---------------------------- *)
\* sqlite3.connect(self.config_db_path, timeout=30.0): one more connection
\* of the process is open. "with ... as conn" commits or rolls back on exit
\* and does not close, and no operation calls conn.close().
Connected(c, p) == [c EXCEPT ![p] = IF @ < MaxConns THEN @ + 1 ELSE @]

(* --------------------- PipelineController.__init__ --------------------- *)
\* ALTER TABLE pipeline_config ADD COLUMN col ... DEFAULT value: the rows
\* that were there read the default in the new column.
AddColumn(t, col, value) ==
    [i \in DOMAIN t |-> IF col \in DOMAIN t[i] THEN t[i] ELSE t[i] @@ (col :> value)]

\* The column check of _init_database: created_by and reason are added
\* without a default (NULL), is_active with DEFAULT 1; the UPDATE of the
\* rows whose is_active IS NULL then finds none.
MigrateColumns(t) ==
    AddColumn(AddColumn(AddColumn(t, "created_by", NoneVal), "reason", NoneVal), "is_active", 1)

\* _init_database, first part: PRAGMA journal_mode=WAL, CREATE TABLE IF NOT
\* EXISTS, the column check and CREATE INDEX IF NOT EXISTS, each its own
\* autocommitted statement.
InitSchema(p) ==
    /\ pc[p] = "new"
    /\ tableExists \/ lock = 0
    /\ tableExists' = TRUE
    /\ rows' = MigrateColumns(rows)
    /\ pc' = [pc EXCEPT ![p] = "init_count"]
    /\ UNCHANGED <<lock, txn, now, faults>>
    /\ UNCHANGED <<op, args, attempt, slept, err, outcome, wrote, window, lastSet>>
    /\ conns' = Connected(conns, p)
    /\ UNCHANGED <<mgrVars, rdVars, rtVars, mdVars, hist>>

\* An initialisation that inserts the default row whatever the table holds.
NeedsDefaultAlways(t) == TRUE

\* if cursor.fetchone()[0] == 0, of SELECT COUNT(*) ... WHERE is_active = 1
NeedsDefault(t) == Cardinality(ActiveIds(t)) = 0

\* SELECT COUNT(*) FROM pipeline_config WHERE is_active = 1 and the test
\* "== 0": a read of the committed table, outside any transaction. With a
\* row active the trailing conn.commit() has nothing to commit.
InitCount(p) ==
    /\ pc[p] = "init_count"
    /\ IF NeedsDefault(rows)
       THEN /\ pc' = [pc EXCEPT ![p] = "init_insert"]
            /\ op' = op
       ELSE /\ pc' = [pc EXCEPT ![p] = "idle"]
            /\ op' = [op EXCEPT ![p] = "none"]
    /\ UNCHANGED storeVars
    /\ UNCHANGED <<args, attempt, slept, err, outcome, wrote, window, lastSet>>
    /\ UNCHANGED conns
    /\ UNCHANGED <<mgrVars, rdVars, rtVars, mdVars, hist>>

\* The default row: (PipelineType.RAW.value, "system", "Initial configuration")
DefaultRow(t, ts) == InsertRow(t, "raw", "system", "Initial configuration", ts)

\* INSERT of the default row and conn.commit(): the implicit transaction
\* opens at the INSERT, on the table as committed then.
InitInsert(p) ==
    /\ pc[p] = "init_insert"
    /\ lock = 0
    /\ rows' = DefaultRow(rows, now)
    /\ pc' = [pc EXCEPT ![p] = "idle"]
    /\ op' = [op EXCEPT ![p] = "none"]
    /\ Track(p, window[p])
    /\ UNCHANGED <<tableExists, lock, txn, now, faults>>
    /\ UNCHANGED <<args, attempt, slept, err, outcome, lastSet>>
    /\ UNCHANGED conns
    /\ UNCHANGED <<mgrVars, rdVars, rtVars, mdVars, hist>>

\* The INSERT waits for the write lock up to timeout=30.0 and then raises
\* "database is locked"; _init_database has no retry, the constructor fails.
InitBusy(p) ==
    /\ pc[p] = "init_insert"
    /\ lock # 0
    /\ pc' = [pc EXCEPT ![p] = "failed"]
    /\ err' = [err EXCEPT ![p] = ErrLocked]
    /\ outcome' = [outcome EXCEPT ![p] = [kind |-> "raised", err |-> ErrLocked, dict |-> NoDict, at |-> pc[p]]]
    /\ UNCHANGED storeVars
    /\ UNCHANGED <<op, args, attempt, slept, wrote, window, lastSet>>
    /\ UNCHANGED conns
    /\ UNCHANGED <<mgrVars, rdVars, rtVars, mdVars, hist>>

(* ------------------------- the except handlers ------------------------- *)
\* except sqlite3.OperationalError: retry with a sleep, or re-raise; any
\* other exception propagates.
Handle(p, e) ==
    /\ err' = [err EXCEPT ![p] = e]
    /\ IF ShouldRetry(e, attempt[p])
       THEN /\ pc' = [pc EXCEPT ![p] = "sleep"]
            /\ slept' = [slept EXCEPT ![p] = Append(@, RetryDelay(attempt[p]))]
            /\ outcome' = outcome
       ELSE /\ pc' = [pc EXCEPT ![p] = "done"]
            /\ slept' = slept
            /\ outcome' = [outcome EXCEPT ![p] = [kind |-> "raised", err |-> e, dict |-> NoDict, at |-> pc[p]]]

\* AfterRollback when the failed transaction's work is kept.
AfterRollbackKeepsWork(committed, w) == w

\* The committed table after conn.rollback() of a transaction whose working
\* copy is w.
AfterRollback(committed, w) == committed

\* The committed table after conn.commit() of a transaction whose working
\* copy is w.
AfterCommit(committed, w) == w

\* DuringTxn when the UPDATE is committed on its own.
DuringTxnUpdateVisible(committed, w) == w

\* The committed table while the transaction opened by BEGIN IMMEDIATE has
\* run its UPDATE and not yet committed.
DuringTxn(committed, w) == committed

(* ----------------------------- set_pipeline ---------------------------- *)
SetPipeline(p, ptype, by, reason) ==
    /\ pc[p] = "idle"
    /\ Len(rows) + Pending < MaxRows
    /\ pc' = [pc EXCEPT ![p] = "begin"]
    /\ op' = [op EXCEPT ![p] = "set"]
    /\ args' = [args EXCEPT ![p] = [pipeline_type |-> ptype, created_by |-> by, reason |-> reason]]
    /\ attempt' = [attempt EXCEPT ![p] = 0]
    /\ slept' = [slept EXCEPT ![p] = <<>>]
    /\ err' = [err EXCEPT ![p] = NoErr]
    /\ outcome' = [outcome EXCEPT ![p] = NoOutcome]
    /\ wrote' = [wrote EXCEPT ![p] = 0]
    /\ UNCHANGED storeVars
    /\ UNCHANGED <<window, lastSet>>
    /\ UNCHANGED conns
    /\ UNCHANGED <<mgrVars, rdVars, rtVars, mdVars, hist>>

\* sqlite3.connect and BEGIN IMMEDIATE: takes the write lock before any read.
BeginImmediate(p) ==
    /\ pc[p] = "begin"
    /\ lock = 0
    /\ lock' = p
    /\ txn' = rows
    /\ pc' = [pc EXCEPT ![p] = "update"]
    /\ UNCHANGED <<tableExists, rows, now, faults>>
    /\ UNCHANGED <<op, args, attempt, slept, err, outcome, wrote, window, lastSet>>
    /\ conns' = Connected(conns, p)
    /\ UNCHANGED <<mgrVars, rdVars, rtVars, mdVars, hist>>

\* BEGIN IMMEDIATE while another connection holds the write lock through the
\* busy timeout: OperationalError "database is locked".
BeginBusy(p) ==
    /\ pc[p] = "begin"
    /\ lock # 0
    /\ Handle(p, ErrLocked)
    /\ UNCHANGED storeVars
    /\ UNCHANGED <<op, args, attempt, wrote, window, lastSet>>
    /\ conns' = Connected(conns, p)
    /\ UNCHANGED <<mgrVars, rdVars, rtVars, mdVars, hist>>

\* UPDATE pipeline_config SET is_active = 0 WHERE is_active = 1
Update(p) ==
    /\ pc[p] = "update"
    /\ txn' = Deactivate(txn)
    /\ rows' = DuringTxn(rows, txn')
    /\ pc' = [pc EXCEPT ![p] = "insert"]
    /\ Track(p, window[p])
    /\ UNCHANGED <<tableExists, lock, now, faults>>
    /\ UNCHANGED <<op, args, attempt, slept, err, outcome, lastSet>>
    /\ UNCHANGED conns
    /\ UNCHANGED <<mgrVars, rdVars, rtVars, mdVars, hist>>

\* created_by or "unknown"
ActorOrUnknown(by) == IF by = NoneVal THEN "unknown" ELSE by

\* INSERT INTO pipeline_config ... VALUES (?, datetime('now'), ?, ?, 1)
Insert(p) ==
    /\ pc[p] = "insert"
    /\ txn' = InsertRow(txn, args[p].pipeline_type, ActorOrUnknown(args[p].created_by),
                        args[p].reason, now)
    /\ pc' = [pc EXCEPT ![p] = "commit"]
    /\ UNCHANGED <<tableExists, rows, lock, now, faults>>
    /\ UNCHANGED <<op, args, attempt, slept, err, outcome, wrote, window, lastSet>>
    /\ UNCHANGED conns
    /\ UNCHANGED <<mgrVars, rdVars, rtVars, mdVars, hist>>

\* conn.commit(); return True
Commit(p) ==
    /\ pc[p] = "commit"
    /\ rows' = AfterCommit(rows, txn)
    /\ lock' = 0
    /\ txn' = <<>>
    /\ pc' = [pc EXCEPT ![p] = "done"]
    /\ outcome' = [outcome EXCEPT ![p] = [kind |-> "true", err |-> NoErr, dict |-> NoDict, at |-> ""]]
    /\ lastSet' = Len(txn)
    /\ Track(p, window[p])
    /\ UNCHANGED <<tableExists, now, faults>>
    /\ UNCHANGED <<op, args, attempt, slept, err>>
    /\ UNCHANGED conns
    /\ UNCHANGED <<mgrVars, rdVars, rtVars, mdVars, hist>>

\* A statement of set_pipeline fails with e. Inside the transaction the inner
\* handler rolls back and re-raises; then the outer handler decides.
SetFault(p, e) ==
    /\ op[p] = "set"
    /\ pc[p] \in {"begin", "update", "insert", "commit"}
    /\ faults < MaxFaults
    /\ faults' = faults + 1
    /\ IF pc[p] = "begin"
       THEN UNCHANGED <<rows, lock, txn>>
       ELSE /\ rows' = AfterRollback(rows, txn)
            /\ lock' = 0
            /\ txn' = <<>>
    /\ Handle(p, e)
    /\ Track(p, window[p])
    /\ UNCHANGED <<tableExists, now>>
    /\ UNCHANGED <<op, args, attempt, lastSet>>
    /\ UNCHANGED conns
    /\ UNCHANGED <<mgrVars, rdVars, rtVars, mdVars, hist>>

\* time.sleep(...) is over; continue with the next iteration of
\* "for attempt in range(max_retries)", or leave the loop when it is used up:
\* set_pipeline then returns False, get_current_pipeline raises RuntimeError.
ErrGaveUp == [cls |-> "RuntimeError", msg |-> "Failed to read pipeline configuration after multiple attempts"]

Wake(p) ==
    /\ pc[p] = "sleep"
    /\ IF attempt[p] + 1 < max_retries
       THEN /\ attempt' = [attempt EXCEPT ![p] = @ + 1]
            /\ pc' = [pc EXCEPT ![p] = IF op[p] = "set" THEN "begin" ELSE "read"]
            /\ outcome' = outcome
       ELSE /\ attempt' = attempt
            /\ pc' = [pc EXCEPT ![p] = "done"]
            /\ outcome' = [outcome EXCEPT ![p] =
                   IF op[p] = "set"
                   THEN [kind |-> "false", err |-> NoErr, dict |-> NoDict, at |-> ""]
                   ELSE [kind |-> "raised", err |-> ErrGaveUp, dict |-> NoDict, at |-> pc[p]]]
    /\ UNCHANGED storeVars
    /\ UNCHANGED <<op, args, slept, err, wrote, window, lastSet>>
    /\ UNCHANGED conns
    /\ UNCHANGED <<mgrVars, rdVars, rtVars, mdVars, hist>>

(* ------------------------- get_current_pipeline ------------------------ *)
GetCurrent(p) ==
    /\ pc[p] = "idle"
    /\ pc' = [pc EXCEPT ![p] = "read"]
    /\ op' = [op EXCEPT ![p] = "get"]
    /\ attempt' = [attempt EXCEPT ![p] = 0]
    /\ slept' = [slept EXCEPT ![p] = <<>>]
    /\ err' = [err EXCEPT ![p] = NoErr]
    /\ outcome' = [outcome EXCEPT ![p] = NoOutcome]
    /\ wrote' = [wrote EXCEPT ![p] = 0]
    /\ window' = [window EXCEPT ![p] = {TopId(rows)}]
    /\ UNCHANGED storeVars
    /\ UNCHANGED <<args, lastSet>>
    /\ UNCHANGED conns
    /\ UNCHANGED <<mgrVars, rdVars, rtVars, mdVars, hist>>

\* sqlite3.connect, the SELECT and fetchone(): one read of the committed table.
Select(p) ==
    /\ pc[p] = "read"
    /\ outcome' = [outcome EXCEPT ![p] = SelectCurrent(rows, now)]
    /\ pc' = [pc EXCEPT ![p] = "done"]
    /\ UNCHANGED storeVars
    /\ UNCHANGED <<op, args, attempt, slept, err, wrote, window, lastSet>>
    /\ conns' = Connected(conns, p)
    /\ UNCHANGED <<mgrVars, rdVars, rtVars, mdVars, hist>>

\* The connect or the SELECT fails with e.
GetFault(p, e) ==
    /\ op[p] = "get"
    /\ pc[p] = "read"
    /\ faults < MaxFaults
    /\ faults' = faults + 1
    /\ Handle(p, e)
    /\ UNCHANGED <<tableExists, rows, lock, txn, now>>
    /\ UNCHANGED <<op, args, attempt, wrote, window, lastSet>>
    /\ UNCHANGED conns
    /\ UNCHANGED <<mgrVars, rdVars, rtVars, mdVars, hist>>

\* The caller has the result of the call; the process is free for the next.
Return(p) ==
    /\ pc[p] = "done"
    /\ pc' = [pc EXCEPT ![p] = "idle"]
    /\ op' = [op EXCEPT ![p] = "none"]
    /\ args' = [args EXCEPT ![p] = NoArgs]
    /\ attempt' = [attempt EXCEPT ![p] = 0]
    /\ slept' = [slept EXCEPT ![p] = <<>>]
    /\ err' = [err EXCEPT ![p] = NoErr]
    /\ outcome' = [outcome EXCEPT ![p] = NoOutcome]
    /\ wrote' = [wrote EXCEPT ![p] = 0]
    /\ window' = [window EXCEPT ![p] = {}]
    /\ UNCHANGED storeVars
    /\ UNCHANGED lastSet
    /\ UNCHANGED conns
    /\ UNCHANGED <<mgrVars, rdVars, rtVars, mdVars, hist>>

\* A second passes on the clock datetime('now') reads.
Tick ==
    /\ now < MaxClock
    /\ now' = now + 1
    /\ UNCHANGED <<tableExists, rows, lock, txn, faults>>
    /\ UNCHANGED procVars
    /\ UNCHANGED <<mgrVars, rdVars, rtVars, mdVars, hist>>

\* The garbage collector of the process finalizes the connection objects
\* that finished operations left behind, which closes them.
Collect(p) ==
    /\ pc[p] \in {"idle", "failed"}
    /\ conns[p] > 0
    /\ conns' = [conns EXCEPT ![p] = 0]
    /\ UNCHANGED storeVars
    /\ UNCHANGED <<pc, op, args, attempt, slept, err, outcome, wrote, window, lastSet>>
    /\ UNCHANGED <<mgrVars, rdVars, rtVars, mdVars, hist>>

(* ------------------------------ get_history ---------------------------- *)
\* dict(row) of SELECT pipeline_type, created_at, created_by, reason, is_active
HistoryDict(r) ==
    [pipeline_type |-> r.pipeline_type, created_at |-> r.created_at,
     created_by |-> r.created_by, reason |-> r.reason, is_active |-> r.is_active]

\* ORDER BY created_at DESC: the orders of the row positions in which
\* created_at never increases. Rows of the same second may come in any
\* order, the engine decides.
OrderByCreatedAtDesc(t) ==
    {f \in [DOMAIN t -> DOMAIN t] :
        /\ \A i, j \in DOMAIN t : i # j => f[i] # f[j]
        /\ \A i, j \in DOMAIN t : i < j => t[f[i]].created_at >= t[f[j]].created_at}

\* LIMIT ?
Limited(s, limit) == IF limit < 0 \/ limit >= Len(s) THEN s ELSE SubSeq(s, 1, limit)

\* What SELECT ... FROM pipeline_config ORDER BY created_at DESC LIMIT ?
\* may answer on the table t.
HistoryAnswers(t, limit) ==
    {Limited([i \in DOMAIN t |-> HistoryDict(t[f[i]])], limit) : f \in OrderByCreatedAtDesc(t)}

MaxHistoryLimit == 2  \* largest limit of a get_history call

\* get_history(limit): connect, one SELECT on the committed table, the
\* list of dicts. The call is kept with its limit and the number of rows
\* the table had.
GetHistory(p, limit) ==
    /\ pc[p] = "idle"
    /\ tableExists
    /\ \E answer \in HistoryAnswers(rows, limit) :
          hist' = [taken |-> TRUE, limit |-> limit, n |-> Len(rows), result |-> answer]
    /\ hist' # hist
    /\ conns' = Connected(conns, p)
    /\ UNCHANGED storeVars
    /\ UNCHANGED <<pc, op, args, attempt, slept, err, outcome, wrote, window, lastSet>>
    /\ UNCHANGED <<mgrVars, rdVars, rtVars, mdVars>>

Next ==
    \/ \E p \in Procs : InitSchema(p)
    \/ \E p \in Procs : InitCount(p)
    \/ \E p \in Procs : InitInsert(p)
    \/ \E p \in Procs : InitBusy(p)
    \/ \E p \in Procs, c \in SetCalls : SetPipeline(p, c[1], c[2], c[3])
    \/ \E p \in Procs : BeginImmediate(p)
    \/ \E p \in Procs : BeginBusy(p)
    \/ \E p \in Procs : Update(p)
    \/ \E p \in Procs : Insert(p)
    \/ \E p \in Procs : Commit(p)
    \/ \E p \in Procs, e \in InjectedErrors : SetFault(p, e)
    \/ \E p \in Procs : Wake(p)
    \/ \E p \in Procs : Return(p)
    \/ \E p \in Procs : GetCurrent(p)
    \/ \E p \in Procs : Select(p)
    \/ \E p \in Procs, e \in InjectedErrors : GetFault(p, e)
    \/ \E p \in Procs : Collect(p)
    \/ Tick


(* ================= PipelineManager (pipeline_manager.py) ================ *)
(* The uploader's own state store, known from its tests: it creates its    *)
(* tables without a default row, and get_current_config answers with the  *)
(* persisted row, else the PIPELINE_TYPE hint, else raw.                   *)
NumManagers == 2     \* PipelineManager instances on the one file
MaxMgrSets == 2      \* set_pipeline_type calls in a run

Managers == 1..NumManagers
Hints == {NoneVal, "validated", "schematized"}
MgrCalls == {<<"validated", "db_user">>, <<"schematized", "user2">>, <<"raw", "user1">>}
NoConfig == [type |-> NoneVal, source |-> NoneVal, sets |-> 0]
MaxExecs == 3        \* record_execution calls in a run

\* Optional integers: None is the empty tuple, n the tuple of n.
NoLimit == <<>>
Limit(n) == <<n>>
NoHistory == [taken |-> FALSE, limit |-> NoLimit, n |-> 0, rows |-> <<>>]
ExecCalls ==
    { <<"raw", 50, <<"s3://bucket/file1.json">> >>,
      <<"validated", 150, <<"s3://bucket1/file1.json", "s3://bucket2/file2.json">> >> }

\* json.dumps(s3_locations) and json.loads of the stored text
JsonOfList(l) == [json |-> l]
ListOfJson(x) == x.json

\* INSERT INTO pipeline_executions (pipeline_type, records_processed,
\* s3_locations, job_id)
InsertExecution(t, ptype, records, locations, job, ts) ==
    Append(t, [id |-> Len(t) + 1, pipeline_type |-> ptype, records_processed |-> records,
               s3_locations |-> JsonOfList(locations), job_id |-> job, created_at |-> ts])

\* The dict get_execution_history makes of a row.
ExecutionDict(r) ==
    [pipeline_type |-> r.pipeline_type, records_processed |-> r.records_processed,
     s3_locations |-> ListOfJson(r.s3_locations), job_id |-> r.job_id,
     created_at |-> r.created_at]

\* A history in insertion order, oldest first.
ExecutionHistoryOldestFirst(t, limit) ==
    LET k == IF limit = NoLimit \/ limit[1] >= Len(t) THEN Len(t) ELSE limit[1]
    IN  [i \in 1..k |-> ExecutionDict(t[i])]

\* get_execution_history(limit): the rows newest first, cut at limit.
ExecutionHistory(t, limit) ==
    LET k == IF limit = NoLimit \/ limit[1] >= Len(t) THEN Len(t) ELSE limit[1]
    IN  [i \in 1..k |-> ExecutionDict(t[Len(t) + 1 - i])]

\* MgrCurrentConfig with the hint ahead of the persisted row.
MgrCurrentConfigHintFirst(t, hint) ==
    IF hint # NoneVal THEN [type |-> hint, source |-> "environment"]
    ELSE IF ActiveIds(t) # {}
         THEN [type |-> t[SetMax(ActiveIds(t))].pipeline_type,
               source |-> t[SetMax(ActiveIds(t))].created_by]
         ELSE [type |-> "raw", source |-> "default"]

\* get_current_config: database > environment > default.
MgrCurrentConfig(t, hint) ==
    IF ActiveIds(t) # {}
    THEN [type |-> t[SetMax(ActiveIds(t))].pipeline_type,
          source |-> t[SetMax(ActiveIds(t))].created_by]
    ELSE IF hint # NoneVal THEN [type |-> hint, source |-> "environment"]
         ELSE [type |-> "raw", source |-> "default"]

MgrIdle ==
    /\ mgrRows = <<>>
    /\ mgrHint = [m \in Managers |-> NoneVal]
    /\ mgrLog = <<>>
    /\ mgrGot = [m \in Managers |-> NoConfig]
    /\ mgrExecs = <<>>
    /\ mgrHistory = NoHistory

MgrInit ==
    /\ mgrRows = <<>>
    /\ mgrHint \in [Managers -> Hints]
    /\ mgrLog = <<>>
    /\ mgrGot = [m \in Managers |-> NoConfig]
    /\ mgrExecs = <<>>
    /\ mgrHistory = NoHistory

\* set_pipeline_type(pipeline_type, created_by): deactivate the active row
\* and insert the new one, atomically.
MgrSetPipelineType(m, ptype, by) ==
    /\ Len(mgrLog) < MaxMgrSets
    /\ mgrRows' = InsertRow(Deactivate(mgrRows), ptype, by, NoneVal, now)
    /\ mgrLog' = Append(mgrLog, [type |-> ptype, source |-> by])
    /\ UNCHANGED <<mgrHint, mgrGot, mgrExecs, mgrHistory>>
    /\ UNCHANGED <<storeVars, procVars, rdVars, rtVars, mdVars>>

\* get_current_config(); the answer is kept with the number of
\* set_pipeline_type calls committed before it.
MgrGetCurrentConfig(m) ==
    /\ mgrGot' = [mgrGot EXCEPT ![m] =
                    [type |-> MgrCurrentConfig(mgrRows, mgrHint[m]).type,
                     source |-> MgrCurrentConfig(mgrRows, mgrHint[m]).source,
                     sets |-> Len(mgrLog)]]
    /\ UNCHANGED <<mgrRows, mgrHint, mgrLog, mgrExecs, mgrHistory>>
    /\ UNCHANGED <<storeVars, procVars, rdVars, rtVars, mdVars>>

\* record_execution(pipeline_type, records_processed, s3_locations, job_id);
\* the job ids of a run are job_1, job_2, ...
MgrRecordExecution(m, ptype, records, locations) ==
    /\ Len(mgrExecs) < MaxExecs
    /\ mgrExecs' = InsertExecution(mgrExecs, ptype, records, locations,
                                   <<"job_", Len(mgrExecs) + 1>>, now)
    /\ UNCHANGED <<mgrRows, mgrHint, mgrLog, mgrGot, mgrHistory>>
    /\ UNCHANGED <<storeVars, procVars, rdVars, rtVars, mdVars>>

\* get_execution_history(limit); the answer is kept with the limit and the
\* number of executions recorded before it.
MgrGetExecutionHistory(m, limit) ==
    /\ mgrHistory' = [taken |-> TRUE, limit |-> limit, n |-> Len(mgrExecs),
                      rows |-> ExecutionHistory(mgrExecs, limit)]
    /\ mgrHistory' # mgrHistory
    /\ UNCHANGED <<mgrRows, mgrHint, mgrLog, mgrGot, mgrExecs>>
    /\ UNCHANGED <<storeVars, procVars, rdVars, rtVars, mdVars>>

NextManager ==
    \/ \E m \in Managers, c \in MgrCalls : MgrSetPipelineType(m, c[1], c[2])
    \/ \E m \in Managers : MgrGetCurrentConfig(m)
    \/ \E m \in Managers, c \in ExecCalls : MgrRecordExecution(m, c[1], c[2], c[3])
    \/ \E m \in Managers, limit \in {NoLimit} \cup {Limit(n) : n \in 0..(MaxExecs + 1)} :
          MgrGetExecutionHistory(m, limit)

(* ======================== SensorDatabaseReader ========================= *)
MaxSensorRows == 2   \* rows of sensor_readings at the start
MaxProduced == 1     \* rows the external producer inserts in a run
MaxRdFaults == 5     \* connect failures injected in a run

rd_max_retries == 5
rd_initial_retry_delay_ms == 100

\* What the caller runs inside the with block: a statement on the scoped
\* connection, a SELECT the engine answers with "database is locked", or
\* code of its own that raises.
Stmts == {"SELECT", "INSERT", "UPDATE", "DELETE"}
WriteStmts == {"INSERT", "UPDATE", "DELETE"}
Bodies == Stmts \cup {"SELECT_LOCKED", "RAISE"}
NoConn == [open |-> FALSE, mode |-> ""]
ErrReadOnly == [cls |-> "OperationalError", msg |-> "attempt to write a readonly database"]
ErrBusy == [cls |-> "OperationalError", msg |-> "database is busy"]
ErrCantOpen == [cls |-> "OperationalError", msg |-> "unable to open database file"]
ErrSyntax == [cls |-> "OperationalError", msg |-> "syntax error"]
ErrNotADb == [cls |-> "DatabaseError", msg |-> "file is not a database"]
ErrNotFound == [cls |-> "FileNotFoundError", msg |-> "Sensor database not found"]
ErrOnlySelect == [cls |-> "ValueError", msg |-> "Only SELECT queries are allowed on sensor database"]
ErrCaller == [cls |-> "KeyError", msg |-> "raised by the caller's code"]
\* contextlib: the generator yielded a second time after an exception was
\* thrown into it.
ErrDidntStop == [cls |-> "RuntimeError", msg |-> "generator didn't stop after throw()"]
ConnectErrors == {ErrLocked, ErrBusy, ErrCantOpen, ErrNotADb}
\* sqlite3.OperationalError(f"Failed to connect to sensor database after
\* {max_retries} attempts: {last_error}")
ErrAllRetriesFailed(last) ==
    [cls |-> "OperationalError", msg |-> "Failed to connect to sensor database",
     attempts |-> rd_max_retries, cause |-> last]
RdNoOutcome == [kind |-> "none", err |-> NoErr, result |-> <<>>]
NoCall == [name |-> NoneVal, query |-> <<>>]
NotVerified == [kind |-> "none", value |-> FALSE, err |-> NoErr]

\* The sensor_readings row with id i, as the producer writes it.
SensorRow(i) == [id |-> i, timestamp |-> i, value |-> 10 * i]
SensorTable(n) == [i \in 1..n |-> SensorRow(i)]

\* A connection string without the read-only mode.
ConnectionModeReadWrite == "rw"

\* self.connection_string = f"file:{self.db_path}?mode=ro"
ConnectionMode == "ro"

\* What the engine does with a statement on a connection of the given mode:
\* a SELECT answers with the rows; a write on a mode=ro connection fails
\* with "attempt to write a readonly database" and changes nothing; a write
\* on a read-write connection is applied; text that is no statement is a
\* syntax error.
ApplyWrite(stmt, t) ==
    IF stmt = "INSERT" THEN Append(t, SensorRow(Len(t) + 1))
    ELSE IF stmt = "UPDATE" THEN [i \in DOMAIN t |-> [t[i] EXCEPT !.value = 0]]
    ELSE <<>>

Execute(mode, stmt, t) ==
    IF stmt = "SELECT" THEN [rows |-> t, err |-> NoErr, result |-> t]
    ELSE IF stmt = "SELECT_1" THEN [rows |-> t, err |-> NoErr, result |-> <<<<1>>>>]
    ELSE IF stmt = "SELECT_LOCKED" THEN [rows |-> t, err |-> ErrLocked, result |-> <<>>]
    ELSE IF stmt \notin Stmts THEN [rows |-> t, err |-> ErrSyntax, result |-> <<>>]
    ELSE IF mode = "ro" THEN [rows |-> t, err |-> ErrReadOnly, result |-> <<>>]
    ELSE [rows |-> ApplyWrite(stmt, t), err |-> NoErr, result |-> <<>>]

(* ---------------------- read_with_query validation --------------------- *)
\* Query texts are sequences of characters.
Letters == {"A", "C", "D", "E", "I", "L", "N", "R", "S", "T", "W", "H"}
UpperOf == [a |-> "A", c |-> "C", d |-> "D", e |-> "E", i |-> "I", l |-> "L",
            n |-> "N", r |-> "R", s |-> "S", t |-> "T", w |-> "W", h |-> "H"]
Select6 == <<"S", "E", "L", "E", "C", "T">>
Queries ==
    { <<"S", "E", "L", "E", "C", "T", " ", "1">>,
      <<" ", "s", "e", "l", "e", "c", "t", " ", "1", " ">>,
      <<"I", "N", "S", "E", "R", "T", " ", "1">>,
      <<"d", "e", "l", "e", "t", "e", " ", "1">>,
      <<"W", "I", "T", "H", " ", "S", "E", "L", "E", "C", "T">>,
      <<"S", "E", "L", "E", "C", "T", "E", "D", " ", "1">>,
      <<" ">>,
      <<>> }

\* str.upper()
UpperChar(c) == IF c \in DOMAIN UpperOf THEN UpperOf[c] ELSE c
Upper(q) == [i \in DOMAIN q |-> UpperChar(q[i])]

\* str.strip()
RECURSIVE LStrip(_)
LStrip(q) == IF q # <<>> /\ Head(q) = " " THEN LStrip(Tail(q)) ELSE q
RECURSIVE RStrip(_)
RStrip(q) == IF q # <<>> /\ q[Len(q)] = " " THEN RStrip(SubSeq(q, 1, Len(q) - 1)) ELSE q
Strip(q) == RStrip(LStrip(q))

\* str.startswith(prefix)
StartsWith(q, prefix) ==
    /\ Len(q) >= Len(prefix)
    /\ SubSeq(q, 1, Len(prefix)) = prefix

\* query_upper = query.strip().upper(); query_upper.startswith("SELECT")
IsSelectQuery(q) == StartsWith(Upper(Strip(q)), Select6)

\* The top-level keyword of a query: its leading run of letters, in upper
\* case, as the engine's tokenizer reads it.
RECURSIVE LeadingLetters(_)
LeadingLetters(q) ==
    IF q # <<>> /\ Head(q) \in Letters THEN <<Head(q)>> \o LeadingLetters(Tail(q)) ELSE <<>>
Keyword(q) == LeadingLetters(Upper(Strip(q)))

\* The statement the engine sees in a query text.
StatementOf(q) ==
    IF Keyword(q) = Select6 THEN "SELECT"
    ELSE IF Keyword(q) = <<"I", "N", "S", "E", "R", "T">> THEN "INSERT"
    ELSE IF Keyword(q) = <<"D", "E", "L", "E", "T", "E">> THEN "DELETE"
    ELSE "INVALID"

\* "locked" in str(e).lower() or "busy" in str(e).lower()
BusyOrLocked(e) == e.msg \in {"database is locked", "database table is locked", "database is busy"}

\* A retry test that retries every OperationalError.
RdShouldRetryAnyError(e, a) == e.cls = "OperationalError" /\ a < rd_max_retries - 1

\* The retry test of get_connection's except sqlite3.OperationalError.
RdShouldRetry(e, a) ==
    /\ e.cls = "OperationalError"
    /\ BusyOrLocked(e)
    /\ a < rd_max_retries - 1

\* A delay that grows linearly.
RdRetryDelayLinear(a) == rd_initial_retry_delay_ms * (a + 1)

\* self.config.initial_retry_delay * (2**attempt)
RdRetryDelay(a) == rd_initial_retry_delay_ms * (2 ^ a)

(* ------------- the configuration path check of the controller ---------- *)
\* Paths are sequences of pieces; the sensor database of a deployment is at
\* one of SensorDbPaths.
SensorDbPaths ==
    { <<"/data/", "sensor_data", ".db">>,
      <<"/data/", "Sensor_Data", ".db">>,
      <<"/tmp/", "test_sensor", ".db">> }
LowerPiece(x) == IF x = "Sensor_Data" THEN "sensor_data" ELSE x
ErrSeparateDb == [cls |-> "ValueError", msg |-> "Pipeline configuration should use a separate database"]
CtorNone == [kind |-> "none", err |-> NoErr]

\* "sensor_data" in str(config_db_path).lower()
NamesSensorDatabase(path) == \E i \in DOMAIN path : LowerPiece(path[i]) = "sensor_data"

(* ------------------------------ the reader ----------------------------- *)
RdIdle ==
    /\ sensorPath = <<"/data/", "sensor_data", ".db">>
    /\ sensorExists = FALSE
    /\ sensorTables = {}
    /\ ctorOutcome = CtorNone
    /\ sensorRows = <<>>
    /\ produced = 0
    /\ rdPc = "unbuilt"
    /\ rdCall = NoCall
    /\ rdStmt = NoneVal
    /\ rdAttempt = 0
    /\ rdSlept = <<>>
    /\ rdConn = NoConn
    /\ rdOpen = 0
    /\ rdTrace = <<>>
    /\ rdEntered = FALSE
    /\ rdFaults = 0
    /\ rdOutcome = RdNoOutcome
    /\ rdVerified = NotVerified

RdInit ==
    /\ sensorPath \in SensorDbPaths
    /\ sensorExists \in BOOLEAN
    /\ sensorTables = IF sensorExists THEN {"sensor_readings"} ELSE {}
    /\ ctorOutcome = CtorNone
    /\ sensorRows \in {SensorTable(n) : n \in 0..(IF sensorExists THEN MaxSensorRows ELSE 0)}
    /\ produced = 0
    /\ rdPc = "unbuilt"
    /\ rdCall = NoCall
    /\ rdStmt = NoneVal
    /\ rdAttempt = 0
    /\ rdSlept = <<>>
    /\ rdConn = NoConn
    /\ rdOpen = 0
    /\ rdTrace = <<>>
    /\ rdEntered = FALSE
    /\ rdFaults = 0
    /\ rdOutcome = RdNoOutcome
    /\ rdVerified = NotVerified

\* A constructor that does not look at the path.
RdNewLazy ==
    /\ rdPc = "unbuilt"
    /\ rdPc' = "idle"
    /\ rdOutcome' = RdNoOutcome
    /\ UNCHANGED <<sensorPath, sensorExists, sensorTables, ctorOutcome, sensorRows, produced,
                   rdCall, rdStmt, rdAttempt, rdSlept, rdConn, rdOpen, rdTrace, rdEntered, rdFaults>>
    /\ UNCHANGED <<storeVars, procVars, mgrVars, stVars, rtVars, mdVars, rdVerified>>

\* SensorDatabaseReader(db_path): FileNotFoundError unless the path exists.
RdNew ==
    /\ rdPc = "unbuilt"
    /\ IF ~sensorExists
       THEN /\ rdPc' = "unbuilt"
            /\ rdOutcome' = [kind |-> "raised", err |-> ErrNotFound, result |-> <<>>]
       ELSE /\ rdPc' = "idle"
            /\ rdOutcome' = RdNoOutcome
    /\ UNCHANGED <<sensorPath, sensorExists, sensorTables, ctorOutcome, sensorRows, produced,
                   rdCall, rdStmt, rdAttempt, rdSlept, rdConn, rdOpen, rdTrace, rdEntered, rdFaults>>
    /\ UNCHANGED <<storeVars, procVars, mgrVars, stVars, rtVars, mdVars, rdVerified>>

\* with reader.get_connection() as conn: <body>
RdWithConnection(body) ==
    /\ rdPc = "idle"
    /\ rdPc' = "connect"
    /\ rdCall' = [name |-> "get_connection", query |-> <<>>]
    /\ rdStmt' = body
    /\ rdAttempt' = 0
    /\ rdSlept' = <<>>
    /\ rdTrace' = <<>>
    /\ rdEntered' = FALSE
    /\ rdOutcome' = RdNoOutcome
    /\ UNCHANGED <<sensorPath, sensorExists, sensorTables, ctorOutcome, sensorRows, produced,
                   rdConn, rdOpen, rdFaults>>
    /\ UNCHANGED <<storeVars, procVars, mgrVars, stVars, rtVars, mdVars, rdVerified>>

\* reader.read_with_query(q): ValueError unless the text starts with SELECT,
\* then the query runs on a scoped connection.
RdReadWithQuery(q) ==
    /\ rdPc = "idle"
    /\ rdCall' = [name |-> "read_with_query", query |-> q]
    /\ rdAttempt' = 0
    /\ rdSlept' = <<>>
    /\ rdTrace' = <<>>
    /\ rdEntered' = FALSE
    /\ IF IsSelectQuery(q)
       THEN /\ rdPc' = "connect"
            /\ rdStmt' = StatementOf(q)
            /\ rdOutcome' = RdNoOutcome
       ELSE /\ rdPc' = "done"
            /\ rdStmt' = NoneVal
            /\ rdOutcome' = [kind |-> "raised", err |-> ErrOnlySelect, result |-> <<>>]
    /\ UNCHANGED <<sensorPath, sensorExists, sensorTables, ctorOutcome, sensorRows, produced,
                   rdConn, rdOpen, rdFaults>>
    /\ UNCHANGED <<storeVars, procVars, mgrVars, stVars, rtVars, mdVars, rdVerified>>

\* sqlite3.connect(self.connection_string, uri=True, ...) succeeds; yield conn.
\* When the caller's code has already run (the handler continued the loop
\* after an error thrown in at the yield), the second yield makes contextlib
\* raise RuntimeError; the generator stays suspended with its connection open
\* or is closed, depending on the Python version.
RdConnect ==
    /\ rdPc = "connect"
    /\ rdTrace' = Append(rdTrace, NoErr)
    /\ IF rdEntered
       THEN /\ \E closed \in BOOLEAN :
                 /\ rdConn' = IF closed THEN NoConn ELSE [open |-> TRUE, mode |-> ConnectionMode]
                 /\ rdOpen' = IF closed THEN rdOpen ELSE rdOpen + 1
            /\ rdPc' = "done"
            /\ rdOutcome' = [kind |-> "raised", err |-> ErrDidntStop, result |-> <<>>]
       ELSE /\ rdConn' = [open |-> TRUE, mode |-> ConnectionMode]
            /\ rdOpen' = rdOpen + 1
            /\ rdPc' = "body"
            /\ rdOutcome' = rdOutcome
    /\ UNCHANGED <<sensorPath, sensorExists, sensorTables, ctorOutcome, sensorRows, produced,
                   rdCall, rdStmt, rdAttempt, rdSlept, rdEntered, rdFaults>>
    /\ UNCHANGED <<storeVars, procVars, mgrVars, stVars, rtVars, mdVars, rdVerified>>

\* An error e reaches get_connection's handlers: the connection is closed;
\* a busy/locked OperationalError before the last attempt sleeps and retries,
\* anything else is re-raised.
RdHandle(e) ==
    /\ rdConn' = NoConn
    /\ rdOpen' = IF rdConn.open THEN rdOpen - 1 ELSE rdOpen
    /\ IF RdShouldRetry(e, rdAttempt)
       THEN /\ rdPc' = "sleep"
            /\ rdSlept' = Append(rdSlept, RdRetryDelay(rdAttempt))
            /\ rdOutcome' = rdOutcome
       ELSE /\ rdPc' = "done"
            /\ rdSlept' = rdSlept
            /\ rdOutcome' = [kind |-> "raised", err |-> e, result |-> <<>>]

\* sqlite3.connect fails with e.
RdConnectFail(e) ==
    /\ rdPc = "connect"
    /\ rdFaults < MaxRdFaults
    /\ rdFaults' = rdFaults + 1
    /\ rdTrace' = Append(rdTrace, e)
    /\ RdHandle(e)
    /\ UNCHANGED <<sensorPath, sensorExists, sensorTables, ctorOutcome, sensorRows, produced,
                   rdCall, rdStmt, rdAttempt, rdEntered>>
    /\ UNCHANGED <<storeVars, procVars, mgrVars, stVars, rtVars, mdVars, rdVerified>>

\* The caller's code runs with the scoped connection; on success the
\* generator's finally closes the connection, on an error the handlers do.
RdBody ==
    /\ rdPc = "body"
    /\ rdEntered' = TRUE
    /\ IF rdStmt = "RAISE"
       THEN /\ sensorRows' = sensorRows
            /\ RdHandle(ErrCaller)
       ELSE /\ sensorRows' = Execute(rdConn.mode, rdStmt, sensorRows).rows
            /\ IF Execute(rdConn.mode, rdStmt, sensorRows).err = NoErr
               THEN /\ rdConn' = NoConn
                    /\ rdOpen' = rdOpen - 1
                    /\ rdPc' = "done"
                    /\ rdSlept' = rdSlept
                    /\ rdOutcome' = [kind |-> "ok", err |-> NoErr,
                                     result |-> Execute(rdConn.mode, rdStmt, sensorRows).result]
               ELSE RdHandle(Execute(rdConn.mode, rdStmt, sensorRows).err)
    /\ UNCHANGED <<sensorPath, sensorExists, sensorTables, ctorOutcome, produced,
                   rdCall, rdStmt, rdAttempt, rdTrace, rdFaults>>
    /\ UNCHANGED <<storeVars, procVars, mgrVars, stVars, rtVars, mdVars, rdVerified>>

\* time.sleep(delay); continue
RdWake ==
    /\ rdPc = "sleep"
    /\ IF rdAttempt + 1 < rd_max_retries
       THEN /\ rdAttempt' = rdAttempt + 1
            /\ rdPc' = "connect"
            /\ rdOutcome' = rdOutcome
       ELSE /\ rdAttempt' = rdAttempt
            /\ rdPc' = "done"
            /\ rdOutcome' = [kind |-> "raised",
                             err |-> ErrAllRetriesFailed(rdTrace[Len(rdTrace)]),
                             result |-> <<>>]
    /\ UNCHANGED <<sensorPath, sensorExists, sensorTables, ctorOutcome, sensorRows, produced,
                   rdCall, rdStmt, rdSlept, rdConn, rdOpen, rdTrace, rdEntered, rdFaults>>
    /\ UNCHANGED <<storeVars, procVars, mgrVars, stVars, rtVars, mdVars, rdVerified>>

\* reader.verify_connection(): the probe SELECT 1 on a scoped connection.
RdVerifyConnection ==
    /\ rdPc = "idle"
    /\ rdPc' = "connect"
    /\ rdCall' = [name |-> "verify_connection", query |-> <<>>]
    /\ rdStmt' = "SELECT_1"
    /\ rdAttempt' = 0
    /\ rdSlept' = <<>>
    /\ rdTrace' = <<>>
    /\ rdEntered' = FALSE
    /\ rdOutcome' = RdNoOutcome
    /\ rdVerified' = NotVerified
    /\ UNCHANGED <<sensorPath, sensorExists, sensorTables, ctorOutcome, sensorRows, produced,
                   rdConn, rdOpen, rdFaults>>
    /\ UNCHANGED <<storeVars, procVars, mgrVars, stVars, rtVars, mdVars>>

\* The classes verify_connection's except Exception catches: every error of
\* sqlite3 and of the interpreter but the exits BaseException alone covers.
ExceptionClasses ==
    {"OperationalError", "DatabaseError", "IntegrityError", "FileNotFoundError",
     "ValueError", "KeyError", "RuntimeError"}

\* A verify_connection whose handler catches nothing.
VerifyResultUncaught(out) ==
    IF out.kind = "raised"
    THEN [kind |-> "raised", value |-> FALSE, err |-> out.err]
    ELSE [kind |-> "returned", value |-> out.result[1][1] = 1, err |-> NoErr]

\* What verify_connection gives its caller when the with block ended as out:
\* result[0] == 1 for the row the probe fetched, False for an error that
\* except Exception catches.
VerifyResult(out) ==
    IF out.kind = "raised"
    THEN IF out.err.cls \in ExceptionClasses
         THEN [kind |-> "returned", value |-> FALSE, err |-> NoErr]
         ELSE [kind |-> "raised", value |-> FALSE, err |-> out.err]
    ELSE [kind |-> "returned", value |-> out.result[1][1] = 1, err |-> NoErr]

\* The with block of verify_connection has ended: return or except.
RdVerifyReturn ==
    /\ rdPc = "done"
    /\ rdCall.name = "verify_connection"
    /\ rdVerified = NotVerified
    /\ rdVerified' = VerifyResult(rdOutcome)
    /\ UNCHANGED <<sensorPath, sensorExists, sensorTables, ctorOutcome, sensorRows, produced,
                   rdPc, rdCall, rdStmt, rdAttempt, rdSlept, rdConn, rdOpen, rdTrace, rdEntered,
                   rdFaults, rdOutcome>>
    /\ UNCHANGED <<storeVars, procVars, mgrVars, stVars, rtVars, mdVars>>

\* The caller has the result and has let go of it; a generator left
\* suspended is collected and its connection closed.
RdReturn ==
    /\ rdPc = "done"
    /\ rdCall.name = "verify_connection" => rdVerified # NotVerified
    /\ rdPc' = "idle"
    /\ rdCall' = NoCall
    /\ rdStmt' = NoneVal
    /\ rdAttempt' = 0
    /\ rdSlept' = <<>>
    /\ rdConn' = NoConn
    /\ rdOpen' = 0
    /\ rdTrace' = <<>>
    /\ rdEntered' = FALSE
    /\ rdOutcome' = RdNoOutcome
    /\ rdVerified' = NotVerified
    /\ UNCHANGED <<sensorPath, sensorExists, sensorTables, ctorOutcome, sensorRows, produced, rdFaults>>
    /\ UNCHANGED <<storeVars, procVars, mgrVars, stVars, rtVars, mdVars>>

\* The external producer, owner of the sensor database, inserts a row
\* through its own read-write connection, creating the file and the table
\* when they are not there yet.
Produce ==
    /\ produced < MaxProduced
    /\ sensorExists' = TRUE
    /\ sensorTables' = sensorTables \cup {"sensor_readings"}
    /\ sensorRows' = Execute("rw", "INSERT", sensorRows).rows
    /\ produced' = produced + 1
    /\ UNCHANGED <<sensorPath, ctorOutcome, rdPc, rdCall, rdStmt, rdAttempt, rdSlept, rdConn,
                   rdOpen, rdTrace, rdEntered, rdFaults, rdOutcome>>
    /\ UNCHANGED <<storeVars, procVars, mgrVars, stVars, rtVars, mdVars, rdVerified>>

\* PipelineController(config_db_path = path) with the path of the existing
\* sensor database: ValueError when the path contains "sensor_data",
\* otherwise _init_database runs on that file (journal mode, CREATE TABLE
\* pipeline_config, default row).
PipelineControllerNew(path) ==
    /\ path = sensorPath
    /\ sensorExists
    /\ ctorOutcome.kind = "none"
    /\ IF NamesSensorDatabase(path)
       THEN /\ ctorOutcome' = [kind |-> "raised", err |-> ErrSeparateDb]
            /\ sensorTables' = sensorTables
       ELSE /\ ctorOutcome' = [kind |-> "ok", err |-> NoErr]
            /\ sensorTables' = sensorTables \cup {"pipeline_config"}
    /\ UNCHANGED <<sensorPath, sensorExists, sensorRows, produced, rdPc, rdCall, rdStmt, rdAttempt,
                   rdSlept, rdConn, rdOpen, rdTrace, rdEntered, rdFaults, rdOutcome>>
    /\ UNCHANGED <<storeVars, procVars, mgrVars, stVars, rtVars, mdVars, rdVerified>>

NextReader ==
    \/ RdNew
    \/ \E body \in Bodies : RdWithConnection(body)
    \/ \E q \in Queries : RdReadWithQuery(q)
    \/ RdVerifyConnection
    \/ RdVerifyReturn
    \/ RdConnect
    \/ \E e \in ConnectErrors : RdConnectFail(e)
    \/ RdBody
    \/ RdWake
    \/ RdReturn
    \/ Produce
    \/ \E path \in SensorDbPaths : PipelineControllerNew(path)

(* ========================== stream_sensor_data ========================= *)
MaxStreamRows == 5   \* rows of sensor_readings when a stream starts
MaxReadOffset == 2   \* largest offset of a direct read
MaxBatches == MaxStreamRows + MaxProduced + 2  \* batches recorded per stream
OffsetFloor == 0 - (2 * MaxBatches)             \* lowest offset recorded
BatchSizes == (0 - 2)..(MaxStreamRows + 1)

ErrOffsetSyntax == [cls |-> "OperationalError", msg |-> "near \"OFFSET\": syntax error"]

\* ORDER BY timestamp DESC: the row at place k is the one that k-1 rows come
\* before; rows with equal timestamps come in rowid order.
ComesBefore(t, i, j) ==
    \/ t[i].timestamp > t[j].timestamp
    \/ (t[i].timestamp = t[j].timestamp /\ i < j)
OrderByTimestampDesc(t) ==
    [k \in 1..Len(t) |->
        t[CHOOSE i \in DOMAIN t :
              Cardinality({j \in DOMAIN t : ComesBefore(t, j, i)}) = k - 1]]

\* What the engine makes of LIMIT l OFFSET o: a negative limit is no limit,
\* a negative offset is no offset.
Skip(s, o) == IF o <= 0 THEN s ELSE SubSeq(s, o + 1, Len(s))
Take(s, l) == IF l < 0 \/ l >= Len(s) THEN s ELSE SubSeq(s, 1, l)

\* An optional integer argument is <<>> for None and <<n>> for the integer n;
\* Python's truth of it: None and 0 are false.
NoneInt == <<>>
Some(n) == <<n>>
Truthy(x) == x # NoneInt /\ x[1] # 0

\* A read that ignores its offset.
ReadSensorDataNoOffset(t, limit, offset) ==
    [err |-> NoErr,
     result |-> IF Truthy(limit) THEN Take(OrderByTimestampDesc(t), limit[1])
                ELSE OrderByTimestampDesc(t)]

\* read_sensor_data(limit=limit, offset=offset) with the default ordering:
\* LIMIT is added "if limit", OFFSET "if offset"; OFFSET without LIMIT is a
\* syntax error of the engine.
ReadSensorData(t, limit, offset) ==
    IF Truthy(offset) /\ ~Truthy(limit)
    THEN [err |-> ErrOffsetSyntax, result |-> <<>>]
    ELSE [err |-> NoErr,
          result |-> LET ordered == OrderByTimestampDesc(t)
                         skipped == IF Truthy(offset) THEN Skip(ordered, offset[1]) ELSE ordered
                     IN IF Truthy(limit) THEN Take(skipped, limit[1]) ELSE skipped]

NoRead == [called |-> FALSE, limit |-> NoneInt, offset |-> NoneInt, n |-> 0,
           err |-> NoErr, result |-> <<>>]
ReadLimits == {NoneInt} \cup {Some(l) : l \in 0..(MaxStreamRows + 1)}
ReadOffsets == {NoneInt} \cup {Some(o) : o \in 0..MaxReadOffset}

StIdle ==
    /\ stPc = "idle"
    /\ stBatch = 0
    /\ stOffset = 0
    /\ stYielded = <<>>
    /\ stSnapshot = <<>>
    /\ stTurn = 0
    /\ stRead = NoRead

\* The state in which streams are started: a reader on an existing sensor
\* database with up to MaxStreamRows rows.
StInit ==
    /\ sensorPath = <<"/data/", "sensor_data", ".db">>
    /\ sensorExists = TRUE
    /\ sensorTables = {"sensor_readings"}
    /\ ctorOutcome = CtorNone
    /\ sensorRows \in {SensorTable(n) : n \in 0..MaxStreamRows}
    /\ produced = 0
    /\ rdPc = "idle"
    /\ rdCall = NoCall
    /\ rdStmt = NoneVal
    /\ rdAttempt = 0
    /\ rdSlept = <<>>
    /\ rdConn = NoConn
    /\ rdOpen = 0
    /\ rdTrace = <<>>
    /\ rdEntered = FALSE
    /\ rdFaults = 0
    /\ rdOutcome = RdNoOutcome
    /\ rdVerified = NotVerified
    /\ StIdle

\* reader.stream_sensor_data(batch_size = b): offset = 0
StreamStart(b) ==
    /\ stPc = "idle"
    /\ rdPc = "idle"
    /\ stPc' = "running"
    /\ stBatch' = b
    /\ stOffset' = 0
    /\ stYielded' = <<>>
    /\ stSnapshot' = sensorRows
    /\ stTurn' = 0
    /\ stRead' = NoRead
    /\ UNCHANGED <<storeVars, procVars, mgrVars, rdOnly, rtVars, mdVars>>

\* One turn of the while loop: read a batch at the offset; stop on an empty
\* batch; yield it; stop when it is shorter than batch_size; else advance
\* the offset.  Batches beyond MaxBatches are yielded but not recorded, and
\* an offset below OffsetFloor is no longer decreased (the engine treats
\* every negative offset alike).
StreamNext ==
    /\ stPc = "running"
    /\ LET read == ReadSensorData(sensorRows, Some(stBatch), Some(stOffset))
           batch == read.result
       IN IF read.err # NoErr
          THEN /\ stPc' = "failed"
               /\ UNCHANGED <<stOffset, stYielded>>
          ELSE IF batch = <<>>
          THEN /\ stPc' = "ended"
               /\ UNCHANGED <<stOffset, stYielded>>
          ELSE /\ stYielded' = IF Len(stYielded) < MaxBatches
                               THEN Append(stYielded, batch) ELSE stYielded
               /\ IF Len(batch) < stBatch
                  THEN /\ stPc' = "ended"
                       /\ stOffset' = stOffset
                  ELSE /\ stPc' = "running"
                       /\ stOffset' = IF stOffset + stBatch < OffsetFloor
                                      THEN stOffset ELSE stOffset + stBatch
    /\ stTurn' = 1 - stTurn
    /\ UNCHANGED <<stBatch, stSnapshot, stRead>>
    /\ UNCHANGED <<storeVars, procVars, mgrVars, rdOnly, rtVars, mdVars>>

\* read_sensor_data raises instead of returning a batch (its connection
\* could not be opened); the error leaves the generator.
StreamReadFails ==
    /\ stPc = "running"
    /\ stPc' = "failed"
    /\ UNCHANGED <<stBatch, stOffset, stYielded, stSnapshot, stTurn, stRead>>
    /\ UNCHANGED <<storeVars, procVars, mgrVars, rdOnly, rtVars, mdVars>>

\* reader.read_sensor_data(limit = limit, offset = offset) on a connection
\* that opens at the first attempt; the call is kept with the number of rows
\* the table had and with what it returned or raised.
StReadSensorData(limit, offset) ==
    /\ stPc = "idle"
    /\ rdPc = "idle"
    /\ stRead' = [called |-> TRUE, limit |-> limit, offset |-> offset, n |-> Len(sensorRows),
                  err |-> ReadSensorData(sensorRows, limit, offset).err,
                  result |-> ReadSensorData(sensorRows, limit, offset).result]
    /\ stRead' # stRead
    /\ UNCHANGED <<stPc, stBatch, stOffset, stYielded, stSnapshot, stTurn>>
    /\ UNCHANGED <<storeVars, procVars, mgrVars, rdOnly, rtVars, mdVars>>

NextStream ==
    \/ \E b \in BatchSizes : StreamStart(b)
    \/ \E limit \in ReadLimits, offset \in ReadOffsets : StReadSensorData(limit, offset)
    \/ StreamNext
    \/ StreamReadFails
    \/ Produce

(* ============================= PhaseRouter ============================== *)
\* _validate_and_split_data of the uploader (sqlite_to_databricks_uploader.py)
\* as the specification and the tests describe it.
MaxBatchLen == 2     \* records in a batch handed to the router
MaxRtClock == 1      \* readings of the clock that stamps processed_at

\* Values of a record's fields. Measurements are floats kept in tenths, so
\* that 60.1 is 601; the other values are None, a text that is no number
\* ("hot"), the text of a number ("70"), and the float nan.
None == [tag |-> "none", v |-> 0]
Num(n) == [tag |-> "num", v |-> n]
Text == [tag |-> "str", v |-> 0]
NumText(n) == [tag |-> "numstr", v |-> n]
NaN == [tag |-> "nan", v |-> 0]

TempMin == (0 - 20) * 10
TempMax == 60 * 10
HumidityMin == 0 * 10
HumidityMax == 100 * 10

\* dict.get(key, default)
Get(rec, key, default) == IF key \in DOMAIN rec THEN rec[key] ELSE default

\* The records a batch is made of, before the id is given: measurements on
\* and next to each bound, and records with a missing, null or non-numeric
\* field.
Readings ==
    { [temperature |-> Num(t), humidity |-> Num(h)] :
          t \in {TempMin - 1, TempMin, TempMax, TempMax + 1}, h \in {HumidityMin, HumidityMax + 1} }
    \cup
    { [temperature |-> Num(t), humidity |-> Num(h)] :
          t \in {TempMax, TempMax + 1}, h \in {HumidityMin - 1, HumidityMin, HumidityMax, HumidityMax + 1} }
Defective ==
    { [temperature |-> x, humidity |-> Num(HumidityMin)] : x \in {None, Text, NaN} }
    \cup { [humidity |-> Num(h)] : h \in {HumidityMin, HumidityMax + 1} }
    \cup { [temperature |-> Num(TempMax), humidity |-> x] : x \in {None, Text} }
    \cup { [temperature |-> Num(t)] : t \in {TempMax, TempMax + 1} }
    \cup { [temperature |-> NumText(TempMax + 100), humidity |-> Num(HumidityMin)] }
    \cup { [pressure |-> Num(10150)] }
SensorRecords == Readings \cup Defective

\* A map in which the aliases have outcomes of their own.
pipeline_bucket_map_no_alias ==
    [raw |-> "ingestion", ingestion |-> "raw", schematized |-> "schematized",
     validated |-> "SPLIT", anomaly |-> "anomalies", anomalies |-> "SPLIT",
     aggregated |-> "aggregated", enriched |-> "enriched", filtered |-> "filtered"]

\* pipeline_bucket_map of the uploader
pipeline_bucket_map ==
    [raw |-> "ingestion", ingestion |-> "ingestion", schematized |-> "schematized",
     validated |-> "SPLIT", anomaly |-> "anomalies", anomalies |-> "anomalies",
     aggregated |-> "aggregated", enriched |-> "enriched", filtered |-> "enriched"]
Phases == DOMAIN pipeline_bucket_map \cup {"unknown_type"}

\* pipeline_bucket_map.get(pipeline_type)
BucketFor(phase) == Get(pipeline_bucket_map, phase, NoneVal)

\* str(id) for the ids of a batch
IdText(i) == <<"1", "2", "3", "4">>[i]

\* pipeline_metadata of a transformed record, stamped at the clock reading.
StageMetadata(phase, at) == [stage |-> phase, processed_at |-> at]

\* The canonical shape: the turbine id built from the input's id, the
\* measurements as they came, the derived fields, and pipeline_metadata.
MapToTurbineSchema(rec, phase, at) ==
    [timestamp |-> Get(rec, "timestamp", None),
     turbine_id |-> <<"turbine_">> \o (IF "id" \in DOMAIN rec THEN <<IdText(rec.id)>>
                                      ELSE <<"0", "0", "1">>),
     site_id |-> "test_site",
     temperature |-> Get(rec, "temperature", None),
     humidity |-> Get(rec, "humidity", None),
     pressure |-> Get(rec, "pressure", Num(10132)),
     wind_speed |-> Num(150),
     power_output |-> Num(15000),
     pipeline_metadata |-> StageMetadata(phase, at)]

\* float(x): the number of a float or of the text of a number, nan for nan,
\* ValueError or TypeError for anything else.
Float(x) ==
    IF x.tag \in {"num", "numstr"} THEN [raised |-> FALSE, nan |-> FALSE, v |-> x.v]
    ELSE IF x.tag = "nan" THEN [raised |-> FALSE, nan |-> TRUE, v |-> 0]
    ELSE [raised |-> TRUE, nan |-> FALSE, v |-> 0]
Zero == [raised |-> FALSE, nan |-> FALSE, v |-> 0]

\* A coercion that lets the conversion error out instead of taking 0.0.
CoerceStrict(x) == IF x = None THEN Zero ELSE Float(x)

\* float(x) if x is not None else 0.0; 0.0 on ValueError or TypeError
Coerce(x) == IF x = None THEN Zero ELSE IF Float(x).raised THEN Zero ELSE Float(x)

\* Comparisons of floats: every comparison with nan is false.
Less(a, c) == ~a.nan /\ a.v < c
Greater(a, c) == ~a.nan /\ a.v > c

\* A range check with the bounds excluded.
OutOfRangeExclusive(a, lo, hi) == ~Greater(a, lo) \/ ~Less(a, hi)

\* x < lo or x > hi
OutOfRange(a, lo, hi) == Less(a, lo) \/ Greater(a, hi)

\* The default validator: what it finds wrong with a transformed record,
\* the temperature first.
Violations(rec) ==
    LET temp == Coerce(Get(rec, "temperature", Num(0)))
        humidity == Coerce(Get(rec, "humidity", Num(0)))
    IN  IF temp.raised \/ humidity.raised
        THEN <<[message |-> "could not convert", path |-> <<>>, raised |-> TRUE]>>
        ELSE (IF OutOfRange(temp, TempMin, TempMax)
              THEN <<[message |-> "Temperature out of range", path |-> <<"temperature">>,
                      raised |-> FALSE]>>
              ELSE <<>>)
             \o
             (IF OutOfRange(humidity, HumidityMin, HumidityMax)
              THEN <<[message |-> "Humidity out of range", path |-> <<"humidity">>,
                      raised |-> FALSE]>>
              ELSE <<>>)

\* An invalid record without the violation detail.
InvalidRecordBare(rec, violation) == rec

\* The invalid record: the transformed record with the violation detail.
InvalidRecord(rec, violation) ==
    [validation_error |-> violation.message, validation_path |-> violation.path] @@ rec

NoRouted == [valid |-> <<>>, invalid |-> <<>>, raised |-> FALSE]

\* A router that drops the records of a phase it does not know.
RouteRecordDropUnknown(phase, rec, at) ==
    IF phase \in {"raw", "aggregated", "anomaly"}
    THEN [valid |-> <<rec>>, invalid |-> <<>>, raised |-> FALSE]
    ELSE NoRouted

\* A router that stamps every record, the passed-through ones included.
RouteRecordStampAll(phase, rec, at) ==
    [valid |-> <<[pipeline_metadata |-> StageMetadata(phase, at)] @@ rec>>,
     invalid |-> <<>>, raised |-> FALSE]

\* A router that validates in the schematized phase too.
RouteRecordValidateAll(phase, rec, at) ==
    IF phase \in {"schematized", "validated"}
    THEN IF Violations(MapToTurbineSchema(rec, phase, at)) = <<>>
         THEN [valid |-> <<MapToTurbineSchema(rec, phase, at)>>, invalid |-> <<>>, raised |-> FALSE]
         ELSE [valid |-> <<>>, invalid |-> <<MapToTurbineSchema(rec, phase, at)>>, raised |-> FALSE]
    ELSE [valid |-> <<rec>>, invalid |-> <<>>, raised |-> FALSE]

\* The body of the loop over the batch: what one record adds to each list.
RouteRecord(phase, rec, at) ==
    IF phase = "raw"
    THEN [valid |-> <<rec>>, invalid |-> <<>>, raised |-> FALSE]
    ELSE IF phase = "schematized"
    THEN [valid |-> <<MapToTurbineSchema(rec, phase, at)>>, invalid |-> <<>>, raised |-> FALSE]
    ELSE IF phase = "validated"
    THEN LET transformed == MapToTurbineSchema(rec, phase, at)
             found == Violations(transformed)
         IN  IF found = <<>>
             THEN [valid |-> <<transformed>>, invalid |-> <<>>, raised |-> FALSE]
             ELSE IF found[1].raised
             THEN [valid |-> <<>>, invalid |-> <<>>, raised |-> TRUE]
             ELSE [valid |-> <<>>, invalid |-> <<InvalidRecord(transformed, found[1])>>,
                   raised |-> FALSE]
    ELSE IF phase = "aggregated"
    THEN [valid |-> <<rec>>, invalid |-> <<>>, raised |-> FALSE]
    ELSE IF phase = "anomaly"
    THEN [valid |-> <<rec>>, invalid |-> <<>>, raised |-> FALSE]
    ELSE [valid |-> <<rec>>, invalid |-> <<>>, raised |-> FALSE]

\* A split that puts the newest record first.
RECURSIVE ValidateAndSplitDataReversed(_, _, _)
ValidateAndSplitDataReversed(phase, data, at) ==
    IF data = <<>> THEN NoRouted
    ELSE [valid |-> ValidateAndSplitDataReversed(phase, Tail(data), at).valid
                        \o RouteRecord(phase, Head(data), at).valid,
          invalid |-> ValidateAndSplitDataReversed(phase, Tail(data), at).invalid
                        \o RouteRecord(phase, Head(data), at).invalid,
          raised |-> FALSE]

\* A split that judges the whole batch by its first record.
ValidateAndSplitDataByFirst(phase, data, at) ==
    IF data = <<>> THEN NoRouted
    ELSE IF RouteRecord(phase, Head(data), at).invalid = <<>>
    THEN [valid |-> [i \in DOMAIN data |->
                        (RouteRecord(phase, data[i], at).valid
                         \o RouteRecord(phase, data[i], at).invalid)[1]],
          invalid |-> <<>>, raised |-> FALSE]
    ELSE [valid |-> <<>>,
          invalid |-> [i \in DOMAIN data |->
                        (RouteRecord(phase, data[i], at).valid
                         \o RouteRecord(phase, data[i], at).invalid)[1]],
          raised |-> FALSE]

\* _validate_and_split_data(data): the records of the batch one after the
\* other, each appended to valid or to invalid.
RECURSIVE ValidateAndSplitData(_, _, _)
ValidateAndSplitData(phase, data, at) ==
    IF data = <<>> THEN NoRouted
    ELSE [valid |-> RouteRecord(phase, Head(data), at).valid
                        \o ValidateAndSplitData(phase, Tail(data), at).valid,
          invalid |-> RouteRecord(phase, Head(data), at).invalid
                        \o ValidateAndSplitData(phase, Tail(data), at).invalid,
          raised |-> RouteRecord(phase, Head(data), at).raised
                        \/ ValidateAndSplitData(phase, Tail(data), at).raised]

RtIdle ==
    /\ rtPhase = "raw"
    /\ rtBatch = <<>>
    /\ rtPc = "idle"
    /\ rtValid = <<>>
    /\ rtInvalid = <<>>
    /\ rtRaised = FALSE
    /\ rtBucket = NoneVal
    /\ rtAt = 0

\* uploader.current_pipeline_type = pipeline_type
RtSetPipelineType(phase) ==
    /\ rtPc = "idle"
    /\ phase # rtPhase
    /\ rtPhase' = phase
    /\ UNCHANGED <<rtBatch, rtPc, rtValid, rtInvalid, rtRaised, rtBucket, rtAt>>
    /\ UNCHANGED <<storeVars, procVars, mgrVars, rdVars, mdVars>>

\* The next record read from the sensor table joins the batch, with the
\* next id.
RtRead(rec) ==
    /\ rtPc = "idle"
    /\ Len(rtBatch) < MaxBatchLen
    /\ rtBatch' = Append(rtBatch, [id |-> Len(rtBatch) + 1] @@ rec)
    /\ UNCHANGED <<rtPhase, rtPc, rtValid, rtInvalid, rtRaised, rtBucket, rtAt>>
    /\ UNCHANGED <<storeVars, procVars, mgrVars, rdVars, mdVars>>

\* valid, invalid = uploader._validate_and_split_data(batch), and the bucket
\* of the phase.
RtValidateAndSplit(at) ==
    /\ rtPc = "idle"
    /\ rtPc' = "done"
    /\ rtAt' = at
    /\ rtValid' = ValidateAndSplitData(rtPhase, rtBatch, at).valid
    /\ rtInvalid' = ValidateAndSplitData(rtPhase, rtBatch, at).invalid
    /\ rtRaised' = ValidateAndSplitData(rtPhase, rtBatch, at).raised
    /\ rtBucket' = BucketFor(rtPhase)
    /\ UNCHANGED <<rtPhase, rtBatch>>
    /\ UNCHANGED <<storeVars, procVars, mgrVars, rdVars, mdVars>>

\* The lists have been handed on; the next batch starts empty.
RtNextBatch ==
    /\ rtPc = "done"
    /\ rtPc' = "idle"
    /\ rtBatch' = <<>>
    /\ rtValid' = <<>>
    /\ rtInvalid' = <<>>
    /\ rtRaised' = FALSE
    /\ rtBucket' = NoneVal
    /\ rtAt' = 0
    /\ UNCHANGED rtPhase
    /\ UNCHANGED <<storeVars, procVars, mgrVars, rdVars, mdVars>>

NextRouter ==
    \/ \E phase \in Phases : RtSetPipelineType(phase)
    \/ \E rec \in SensorRecords : RtRead(rec)
    \/ \E at \in 0..MaxRtClock : RtValidateAndSplit(at)
    \/ RtNextBatch

(* ============================ pipeline_metadata ========================= *)
MaxConfigKeys == 2   \* keys in the configuration handed to the generator

\* The configuration is a dict: pairs of key and value in insertion order,
\* no key twice. Some of its values are secrets.
ConfigKeyOrder == <<"schema_url", "secret_access_key", "sqlite">>
ConfigKeyNames == {ConfigKeyOrder[i] : i \in DOMAIN ConfigKeyOrder}
ConfigValues == {"value-1", "value-2"}
PipelineVersions == {NoneVal, "1.0.0"}
GitShas == {"4f2a9c1", "unknown"}
NodeIds == {"test-node-001"}
MetadataPhases == {"schematized", "validated"}
NoMetadataCall == [pipeline_type |-> NoneVal, node_id |-> NoneVal, git_sha |-> NoneVal, at |-> 0]
NoMetadata == [pipeline_stage |-> NoneVal]

\* config.keys()
Keys(config) == [i \in DOMAIN config |-> config[i].key]
KeySet(config) == {config[i].key : i \in DOMAIN config}

\* sorted(names): the names in the order of the strings.
Sorted(names) == SelectSeq(ConfigKeyOrder, LAMBDA k : k \in names)

\* os.getenv("PIPELINE_VERSION", "0.9.0")
get_pipeline_version(env) == IF env = NoneVal THEN "0.9.0" ELSE env

\* json.dumps(transformation_def, sort_keys=True): the text is made of the
\* three entries in the order of their names.
JsonDumps(def) ==
    <<"config_keys", def.config_keys, "pipeline_type", def.pipeline_type, "version", def.version>>

\* hashlib.sha256(text).hexdigest(): equal texts give equal digests, and no
\* two texts of the model give the same digest.
Sha256(text) == [sha256 |-> text]

\* A hash over the items of the configuration, values included, as they come.
generate_transformation_hash_of_items(pipeline_type, config, env) ==
    Sha256(JsonDumps([pipeline_type |-> pipeline_type,
                      version |-> get_pipeline_version(env),
                      config_keys |-> config]))

\* generate_transformation_hash(pipeline_type, config)
generate_transformation_hash(pipeline_type, config, env) ==
    Sha256(JsonDumps([pipeline_type |-> pipeline_type,
                      version |-> get_pipeline_version(env),
                      config_keys |-> Sorted(KeySet(config))]))

\* create_pipeline_metadata(pipeline_type, node_id, config), with the commit
\* git reports and the clock reading of the call.
create_pipeline_metadata(pipeline_type, node_id, config, env, sha, at) ==
    [pipeline_version |-> get_pipeline_version(env),
     pipeline_stage |-> pipeline_type,
     processing_timestamp |-> at,
     git_sha |-> sha,
     node_id |-> node_id,
     transformation_hash |-> generate_transformation_hash(pipeline_type, config, env)]

MdIdle ==
    /\ mdConfig = <<>>
    /\ mdEnv = NoneVal
    /\ mdPc = "idle"
    /\ mdCall = NoMetadataCall
    /\ mdOut = NoMetadata

\* config[key] = value: a new key goes to the end, a key already there
\* keeps its place.
MdSetConfig(key, value) ==
    /\ mdPc = "idle"
    /\ IF key \in KeySet(mdConfig)
       THEN /\ [key |-> key, value |-> value] \notin {mdConfig[i] : i \in DOMAIN mdConfig}
            /\ mdConfig' = [i \in DOMAIN mdConfig |->
                               IF mdConfig[i].key = key THEN [key |-> key, value |-> value]
                               ELSE mdConfig[i]]
       ELSE /\ Len(mdConfig) < MaxConfigKeys
            /\ mdConfig' = Append(mdConfig, [key |-> key, value |-> value])
    /\ UNCHANGED <<mdEnv, mdPc, mdCall, mdOut>>
    /\ UNCHANGED <<storeVars, procVars, mgrVars, rdVars, rtVars>>

\* del config[key]
MdDelConfig(key) ==
    /\ mdPc = "idle"
    /\ key \in KeySet(mdConfig)
    /\ mdConfig' = SelectSeq(mdConfig, LAMBDA kv : kv.key # key)
    /\ UNCHANGED <<mdEnv, mdPc, mdCall, mdOut>>
    /\ UNCHANGED <<storeVars, procVars, mgrVars, rdVars, rtVars>>

\* PIPELINE_VERSION is set or unset in the environment.
MdSetVersion(env) ==
    /\ mdPc = "idle"
    /\ env # mdEnv
    /\ mdEnv' = env
    /\ UNCHANGED <<mdConfig, mdPc, mdCall, mdOut>>
    /\ UNCHANGED <<storeVars, procVars, mgrVars, rdVars, rtVars>>

\* metadata = create_pipeline_metadata(pipeline_type, node_id, config)
MdCreate(pipeline_type, node_id, sha, at) ==
    /\ mdPc = "idle"
    /\ mdPc' = "done"
    /\ mdCall' = [pipeline_type |-> pipeline_type, node_id |-> node_id, git_sha |-> sha, at |-> at]
    /\ mdOut' = create_pipeline_metadata(pipeline_type, node_id, mdConfig, mdEnv, sha, at)
    /\ UNCHANGED <<mdConfig, mdEnv>>
    /\ UNCHANGED <<storeVars, procVars, mgrVars, rdVars, rtVars>>

\* The metadata has been attached; the generator is free for the next call.
MdReturn ==
    /\ mdPc = "done"
    /\ mdPc' = "idle"
    /\ mdCall' = NoMetadataCall
    /\ mdOut' = NoMetadata
    /\ UNCHANGED <<mdConfig, mdEnv>>
    /\ UNCHANGED <<storeVars, procVars, mgrVars, rdVars, rtVars>>

NextMetadata ==
    \/ \E key \in ConfigKeyNames, value \in ConfigValues : MdSetConfig(key, value)
    \/ \E key \in ConfigKeyNames : MdDelConfig(key)
    \/ \E env \in PipelineVersions : MdSetVersion(env)
    \/ \E pipeline_type \in MetadataPhases, node_id \in NodeIds, sha \in GitShas,
          at \in 0..MaxRtClock : MdCreate(pipeline_type, node_id, sha, at)
    \/ MdReturn

(* ========================== the specifications ========================= *)
Init == StoreInit /\ MgrIdle /\ RdIdle /\ StIdle /\ RtIdle /\ MdIdle

Spec == Init /\ [][Next]_vars

InitManager == StoreInit /\ MgrInit /\ RdIdle /\ StIdle /\ RtIdle /\ MdIdle

SpecManager == InitManager /\ [][NextManager]_vars

InitReader == StoreInit /\ MgrIdle /\ RdInit /\ StIdle /\ RtIdle /\ MdIdle

SpecReader == InitReader /\ [][NextReader]_vars

\* The state store with callers of get_history, when no statement fails
\* and a writer that finds the file locked waits for the lock.
NextHistory ==
    \/ \E p \in Procs : InitSchema(p)
    \/ \E p \in Procs : InitCount(p)
    \/ \E p \in Procs : InitInsert(p)
    \/ \E p \in Procs, c \in SetCalls : SetPipeline(p, c[1], c[2], c[3])
    \/ \E p \in Procs : BeginImmediate(p)
    \/ \E p \in Procs : Update(p)
    \/ \E p \in Procs : Insert(p)
    \/ \E p \in Procs : Commit(p)
    \/ \E p \in Procs : Return(p)
    \/ \E p \in Procs, limit \in 1..MaxHistoryLimit : GetHistory(p, limit)
    \/ Tick

SpecHistory == Init /\ [][NextHistory]_vars

InitLegacy == StoreInitLegacy /\ MgrIdle /\ RdIdle /\ StIdle /\ RtIdle /\ MdIdle

\* The state store opened on a file with a legacy table.
SpecLegacy == InitLegacy /\ [][Next]_vars

InitStream == StoreInit /\ MgrIdle /\ StInit /\ RtIdle /\ MdIdle

InitRouter == StoreInit /\ MgrIdle /\ RdIdle /\ StIdle /\ RtIdle /\ MdIdle

SpecRouter == InitRouter /\ [][NextRouter]_vars

InitMetadata == StoreInit /\ MgrIdle /\ RdIdle /\ StIdle /\ RtIdle /\ MdIdle

SpecMetadata == InitMetadata /\ [][NextMetadata]_vars

\* The consumer of a stream keeps asking for the next batch.
SpecStream == InitStream /\ [][NextStream]_vars /\ WF_vars(StreamNext)

(* ======================= properties of the state store ================== *)
Initializing(p) == pc[p] \in {"new", "init_count", "init_insert"}
AllInitialized == \A p \in Procs : ~Initializing(p)
Quiescent == \A p \in Procs : pc[p] \in {"idle", "done", "failed"}
SetRunning(p) == op[p] = "set" /\ pc[p] \in {"begin", "update", "insert", "commit", "sleep"}
TransientLock(e) == e.cls = "OperationalError" /\ LockedInMsg(e)

\* C1: once every process has finished initialising the database, exactly one
\* pipeline_config row has is_active = 1, whatever set_pipeline calls run.
ExactlyOneActiveRow ==
    AllInitialized => Cardinality(ActiveIds(rows)) = 1

\* C2: when the processes have run the initialisation concurrently on a file
\* with no active row and no set_pipeline has been called, every one of them
\* succeeded and the table holds exactly one active row, the default
\* (raw, system).
InitializeConcurrentSafe ==
    (AllInitialized /\ lastSet = 0 /\ \A p \in Procs : ~SetRunning(p))
    => /\ \A p \in Procs : pc[p] # "failed"
       /\ Cardinality(ActiveIds(rows)) = 1
       /\ \A i \in ActiveIds(rows) :
              rows[i].pipeline_type = "raw" /\ rows[i].created_by = "system"

\* C3: set_pipeline is all-or-nothing. A step of a set_pipeline call changes
\* the committed table only when it is the step that returns True, and that
\* step makes the deactivation and the insertion visible together: one row
\* more, the new row carrying the call's arguments and being the only active
\* row. Every other step, a failing one included, leaves the table as it is.
SetPhaseAllOrNothing ==
    [][\A p \in Procs :
          (op[p] = "set" /\ pc[p] # "done" /\ pc'[p] # pc[p])
          => IF pc'[p] = "done" /\ outcome'[p].kind = "true"
             THEN /\ Len(rows') = Len(rows) + 1
                  /\ ActiveIds(rows') = {Len(rows')}
                  /\ rows'[Len(rows')].pipeline_type = args[p].pipeline_type
                  /\ \A i \in 1..Len(rows) : RowDict(rows'[i]) = RowDict(rows[i])
             ELSE rows' = rows]_vars

\* A set_pipeline call failed inside its transaction, after the UPDATE, and
\* the row that was active before is still active.
SetFailedInsideTxn ==
    \E p \in Procs :
        /\ op[p] = "set" /\ pc[p] = "done"
        /\ outcome[p].kind = "raised" /\ outcome[p].at \in {"insert", "commit"}
        /\ wrote[p] = 0
        /\ ActiveIds(rows) # {}

\* C4: set_pipeline is linearizable per file: once all calls have returned,
\* get_current_pipeline answers with the phase and actor of the last
\* committed set_pipeline call, whose row is the only active one.
SetPhaseLinearizable ==
    (Quiescent /\ lastSet # 0)
    => /\ SelectCurrent(rows, now).dict.pipeline_type = rows[lastSet].pipeline_type
       /\ SelectCurrent(rows, now).dict.created_by = rows[lastSet].created_by
       /\ ActiveIds(rows) = {lastSet}

\* C5: a get_current_pipeline that returned an answer returned a stored row
\* that was the current row at some moment of the call (the row before or the
\* row after a concurrent set_pipeline), never the built-in default.
NoTornRead ==
    \A p \in Procs :
        (op[p] = "get" /\ pc[p] = "done" /\ outcome[p].kind # "raised")
        => /\ outcome[p].kind = "row"
           /\ 0 \notin window[p]
           /\ \E i \in window[p] : i \in DOMAIN rows /\ outcome[p].dict = RowDict(rows[i])

\* A get_current_pipeline overlapped the commit of a set_pipeline and returned.
ReadOverlappedSet ==
    \E p \in Procs :
        /\ op[p] = "get" /\ pc[p] = "done" /\ outcome[p].kind = "row"
        /\ Cardinality(window[p]) = 2
        /\ lastSet \in window[p]

\* The delays of a call that used up its retries: retry_delay doubling from
\* the base delay, one before each retry.
FullBackoff == [i \in 1..(max_retries - 1) |-> retry_delay_ms * (2 ^ (i - 1))]

OtherErrorsPropagate ==
    \A p \in Procs :
        (op[p] \in {"set", "get"} /\ err[p] # NoErr /\ ~TransientLock(err[p]))
        => /\ pc[p] = "done"
           /\ outcome[p].kind = "raised" /\ outcome[p].err = err[p]
           /\ Len(slept[p]) = attempt[p]

\* A disk error was raised in the first attempt of a call and reached the caller.
DiskErrorRaised ==
    \E p \in Procs :
        /\ op[p] \in {"set", "get"} /\ pc[p] = "done"
        /\ outcome[p].kind = "raised" /\ outcome[p].err = ErrDisk
        /\ attempt[p] = 0 /\ slept[p] = <<>>

\* C8: the configuration history is append-only: no step removes a row or
\* changes the phase, creation time, actor or reason of a row, is_active only
\* goes from 1 to 0, and a set_pipeline that returns True adds exactly one row.
HistoryAppendOnly ==
    [][/\ Len(rows') >= Len(rows)
       /\ \A i \in 1..Len(rows) :
              /\ i \in DOMAIN rows'
              /\ rows'[i].id = rows[i].id
              /\ RowDict(rows'[i]) = RowDict(rows[i])
              /\ rows'[i].is_active <= rows[i].is_active
       /\ \A p \in Procs :
              (op[p] = "set" /\ pc[p] # "done" /\ pc'[p] = "done" /\ outcome'[p].kind = "true")
              => Len(rows') = Len(rows) + 1]_vars

\* Two set_pipeline calls have committed: the table holds deactivated rows
\* of the default and of the first call.
TwoSetsCommitted ==
    /\ lastSet >= 3
    /\ Cardinality({i \in DOMAIN rows : rows[i].is_active = 0}) >= 2

ReaderNeverWrites ==
    [][/\ rdConn'.open => rdConn'.mode = "ro"
       /\ (rdPc = "body" /\ rdPc' # "body" /\ rdStmt \in WriteStmts)
          => /\ rdOutcome'.kind = "raised"
             /\ rdOutcome'.err = ErrReadOnly
             /\ sensorRows' = sensorRows
       /\ sensorRows' # sensorRows => produced' = produced + 1]_vars

\* An INSERT was run on the scoped connection against a table with rows and
\* the caller got the read-only error.
WriteRejected ==
    /\ rdPc = "done" /\ rdStmt = "INSERT"
    /\ rdOutcome.kind = "raised" /\ rdOutcome.err = ErrReadOnly
    /\ Len(sensorRows) > 0

\* The connect failures of the running operation, and whether they were all
\* busy/locked conditions.
RdFailures == {i \in DOMAIN rdTrace : rdTrace[i] # NoErr}
RdOnlyBusyFailures == \A i \in RdFailures : BusyOrLocked(rdTrace[i])
RdBackoff(k) == [i \in 1..k |-> rd_initial_retry_delay_ms * (2 ^ (i - 1))]

\* C11: read_with_query rejects every query whose top-level keyword is not
\* SELECT with the validation error before execution: no connection is
\* opened and no statement reaches the database.
ReadWithQueryRejectsNonSelect ==
    (rdCall.name = "read_with_query" /\ Keyword(rdCall.query) # Select6)
        => /\ rdPc = "done"
           /\ rdOutcome.kind = "raised" /\ rdOutcome.err = ErrOnlySelect
           /\ rdTrace = <<>>
           /\ rdOpen = 0

\* C12: at most one connection is open at any moment of a scoped operation,
\* and once the operation has ended (normally, with an error of the caller's
\* code, or after failed connects) every connection it opened is closed.
ScopedConnectionReleased ==
    /\ rdOpen <= 1
    /\ rdPc \in {"unbuilt", "idle", "done"} => rdOpen = 0

\* C13: when connecting fails k < max_retries times with busy/locked and then
\* succeeds, the read completes successfully after exactly k+1 connect
\* attempts, having slept initial_retry_delay * 2^i before retry i; fewer
\* than max_retries busy failures never end the operation.
RetryThenSuccess ==
    /\ (rdPc = "done" /\ rdStmt = "SELECT" /\ RdOnlyBusyFailures
        /\ RdFailures # DOMAIN rdTrace)
          => /\ Len(rdTrace) = Cardinality(RdFailures) + 1
             /\ rdTrace[Len(rdTrace)] = NoErr
             /\ Cardinality(RdFailures) < rd_max_retries
             /\ rdOutcome.kind = "ok"
             /\ rdSlept = RdBackoff(Cardinality(RdFailures))
    /\ (rdPc = "done" /\ rdTrace # <<>> /\ RdOnlyBusyFailures
        /\ RdFailures = DOMAIN rdTrace)
          => Len(rdTrace) = rd_max_retries

\* A read that connected at the fifth attempt, after four busy failures.
ConnectedAtLastAttempt ==
    /\ rdPc = "done" /\ rdStmt = "SELECT" /\ rdOutcome.kind = "ok"
    /\ Len(rdTrace) = rd_max_retries
    /\ rdSlept = <<100, 200, 400, 800>>

\* C14: when all max_retries connect attempts fail with busy/locked, the
\* operation raises the aggregated error that reports the number of attempts
\* and wraps the last underlying error.
ExhaustedRetriesAggregated ==
    (rdPc = "done" /\ Len(rdTrace) = rd_max_retries
     /\ \A i \in DOMAIN rdTrace : rdTrace[i] # NoErr /\ BusyOrLocked(rdTrace[i]))
        => /\ rdOutcome.kind = "raised"
           /\ rdOutcome.err = ErrAllRetriesFailed(rdTrace[rd_max_retries])

\* C15: a connect error that is no busy/locked condition ends the operation
\* in the attempt that raised it: it is the error the caller gets, no sleep
\* follows it and no further connect is attempted; raised by the first
\* attempt, it reaches the caller after one attempt and no sleep.
NonBusyConnectErrorPropagates ==
    (rdTrace # <<>> /\ rdTrace[Len(rdTrace)] # NoErr
     /\ ~BusyOrLocked(rdTrace[Len(rdTrace)]))
        => /\ rdPc = "done"
           /\ rdOutcome.kind = "raised" /\ rdOutcome.err = rdTrace[Len(rdTrace)]
           /\ Len(rdSlept) = Len(rdTrace) - 1
           /\ rdOpen = 0

\* The first connect failed with "unable to open database file" and the
\* caller has that error.
CantOpenRaisedAtOnce ==
    /\ rdPc = "done" /\ rdTrace = <<ErrCantOpen>>
    /\ rdOutcome.err = ErrCantOpen /\ rdSlept = <<>>

\* C21: verify_connection never raises for a connection failure: whenever
\* the scoped connection ended with an error (the file gone, a non-retryable
\* connect error, busy/locked through all retries) it returns False, and it
\* returns True only when the last connect succeeded and the probe SELECT 1
\* answered with the row (1).
VerifyConnectionNeverRaises ==
    (rdCall.name = "verify_connection" /\ rdVerified # NotVerified)
        => /\ rdVerified.kind = "returned"
           /\ rdOutcome.kind = "raised" => ~rdVerified.value
           /\ rdVerified.value
                 => /\ rdOutcome.kind = "ok"
                    /\ rdTrace # <<>> /\ rdTrace[Len(rdTrace)] = NoErr
                    /\ rdOutcome.result = <<<<1>>>>

\* verify_connection returned False after max_retries busy/locked connects.
VerifiedFalseAfterBusyRetries ==
    /\ rdCall.name = "verify_connection"
    /\ rdVerified.kind = "returned" /\ ~rdVerified.value
    /\ Len(rdTrace) = rd_max_retries
    /\ \A i \in DOMAIN rdTrace : rdTrace[i] # NoErr /\ BusyOrLocked(rdTrace[i])

\* C19: constructing the state store on the path of the sensor database
\* fails with the configuration error and creates no table in that file.
ControllerRefusesSensorDatabase ==
    /\ ctorOutcome.kind # "none"
          => ctorOutcome.kind = "raised" /\ ctorOutcome.err = ErrSeparateDb
    /\ "pipeline_config" \notin sensorTables

\* C20: constructing the reader on a path that does not exist fails with the
\* not-found error: no reader comes into being, nothing is connected, and the
\* file is not created by the attempt (only the producer creates it).
ReaderFailsFastOnMissingFile ==
    [][/\ rdPc' # "unbuilt" => sensorExists'
       /\ rdPc' = "unbuilt" => rdOpen' = 0 /\ rdTrace' = <<>> /\ rdConn' = NoConn
       /\ (rdPc = "unbuilt" /\ ~sensorExists /\ rdOutcome' # rdOutcome)
             => /\ rdOutcome'.kind = "raised" /\ rdOutcome'.err = ErrNotFound
                /\ rdPc' = "unbuilt"
                /\ ~sensorExists'
       /\ (~sensorExists /\ sensorExists') => produced' = produced + 1]_vars

\* The constructor has raised the not-found error and the file is still
\* missing.
ConstructionRefused ==
    /\ rdPc = "unbuilt" /\ ~sensorExists
    /\ rdOutcome.kind = "raised" /\ rdOutcome.err = ErrNotFound

(* ========================= properties of streams ======================= *)
CeilDiv(n, b) == (n + b - 1) \div b
RECURSIVE Concat(_)
Concat(batches) == IF batches = <<>> THEN <<>> ELSE Head(batches) \o Concat(Tail(batches))
Unpaginated(t) == ReadSensorData(t, NoneInt, NoneInt).result
StreamUndisturbed == stPc \in {"running", "ended"} /\ stBatch >= 1 /\ sensorRows = stSnapshot

\* C16: over a table of n rows that is not modified during the stream, with
\* batch_size b >= 1: no yielded batch is empty, the batches yielded so far
\* are the beginning of the unpaginated read, and when the stream has ended
\* there are ceil(n/b) batches, all of b rows except the last, which has 1..b
\* rows, and their concatenation is the unpaginated read.
StreamBatches ==
    StreamUndisturbed =>
        /\ \A i \in DOMAIN stYielded : stYielded[i] # <<>>
        /\ Len(Concat(stYielded)) <= Len(sensorRows)
        /\ Concat(stYielded) = SubSeq(Unpaginated(sensorRows), 1, Len(Concat(stYielded)))
        /\ stPc = "ended" =>
              /\ Len(stYielded) = CeilDiv(Len(sensorRows), stBatch)
              /\ \A i \in 1..(Len(stYielded) - 1) : Len(stYielded[i]) = stBatch
              /\ stYielded # <<>> => Len(stYielded[Len(stYielded)]) \in 1..stBatch
              /\ Concat(stYielded) = Unpaginated(sensorRows)

\* Five rows streamed with batch_size 2 gave batches of 2, 2 and 1 rows.
FiveRowsInThreeBatches ==
    /\ stPc = "ended" /\ stBatch = 2 /\ Len(sensorRows) = 5 /\ sensorRows = stSnapshot
    /\ Len(stYielded) = 3
    /\ Len(stYielded[1]) = 2 /\ Len(stYielded[2]) = 2 /\ Len(stYielded[3]) = 1

\* C17: a stream is finite for every batch_size, 0 and negative values
\* included: a running stream ends after finitely many batches.
StreamIsFinite == (stPc = "running") ~> (stPc \in {"ended", "failed"})

(* ================ properties of the store's connections ================= *)
\* C18: every operation of the state store has closed the connection it
\* opened by the time it returns or raises: between operations a process
\* holds no open connection to the configuration database.
StoreConnectionsScoped ==
    \A p \in Procs : pc[p] \in {"idle", "done", "failed"} => conns[p] = 0

(* ====================== properties of the phase router ================== *)
\* The position in the batch of the record an output record was made from.
SourceId(out) ==
    IF "id" \in DOMAIN out THEN out.id
    ELSE CHOOSE i \in 1..4 : out.turbine_id = <<"turbine_", IdText(i)>>
SourceIds(list) == [j \in DOMAIN list |-> SourceId(list[j])]
StrictlyIncreasing(s) == \A i, j \in DOMAIN s : i < j => s[i] < s[j]
Range(s) == {s[i] : i \in DOMAIN s}
PlacedValid(i) == i \in Range(SourceIds(rtValid))
PlacedInvalid(i) == i \in Range(SourceIds(rtInvalid))

\* A field that is missing, null, a text that is no number, or nan.
Defect(rec, key) == key \notin DOMAIN rec \/ rec[key].tag \in {"none", "str", "nan"}
Within(x, lo, hi) == lo <= x.v /\ x.v <= hi

\* C22: for every phase and batch the router returns, without raising, one
\* output record per input record: the two lists together are as long as
\* the batch, every input record is the source of exactly one output, and
\* each list keeps the order of the batch.
RouterEmitsOnePerRecord ==
    rtPc = "done"
        => /\ ~rtRaised
           /\ Len(rtValid) + Len(rtInvalid) = Len(rtBatch)
           /\ Range(SourceIds(rtValid)) \cup Range(SourceIds(rtInvalid)) = DOMAIN rtBatch
           /\ Range(SourceIds(rtValid)) \cap Range(SourceIds(rtInvalid)) = {}
           /\ StrictlyIncreasing(SourceIds(rtValid))
           /\ StrictlyIncreasing(SourceIds(rtInvalid))

\* The validated phase put both records of a batch in invalid.
TwoInvalidInOrder ==
    /\ rtPc = "done" /\ rtPhase = "validated"
    /\ Len(rtBatch) = 2 /\ Len(rtInvalid) = 2
    /\ SourceIds(rtInvalid) = <<1, 2>>

\* C23: in the raw, aggregated and anomaly phases invalid is empty and valid
\* is the input batch, the same records in the same order, none of them with
\* pipeline_metadata.
PassThroughPhasesAreIdentity ==
    (rtPc = "done" /\ rtPhase \in {"raw", "aggregated", "anomaly"})
        => /\ rtInvalid = <<>>
           /\ rtValid = rtBatch
           /\ \A j \in DOMAIN rtValid : "pipeline_metadata" \notin DOMAIN rtValid[j]

\* The aggregated phase passed on a batch of two records, one of them out of
\* range.
AggregatedPassedOutOfRange ==
    /\ rtPc = "done" /\ rtPhase = "aggregated"
    /\ Len(rtBatch) = 2 /\ rtValid = rtBatch
    /\ Get(rtBatch[1], "temperature", None) = Num(TempMax + 1)

\* C24: a phase the router has no branch for never discards data and never
\* raises: valid is the input batch unchanged and invalid is empty.
HandledPhases == {"raw", "schematized", "validated", "aggregated", "anomaly"}
UnrecognizedPhasePassesThrough ==
    (rtPc = "done" /\ rtPhase \notin HandledPhases)
        => /\ ~rtRaised
           /\ rtValid = rtBatch
           /\ rtInvalid = <<>>

\* A batch of two records went through the phase unknown_type.
UnknownTypeRouted ==
    /\ rtPc = "done" /\ rtPhase = "unknown_type"
    /\ Len(rtBatch) = 2 /\ rtValid = rtBatch

\* C25: in the validated phase a record with a numeric temperature and a
\* numeric humidity is placed in valid if and only if the temperature is in
\* [-20, 60] and the humidity in [0, 100], bounds included, and in invalid
\* otherwise, also when both are out of range.
Numeric(rec, key) == key \in DOMAIN rec /\ rec[key].tag \in {"num", "numstr"}
ValidIffInRange ==
    (rtPc = "done" /\ rtPhase = "validated")
        => \A i \in DOMAIN rtBatch :
              (Numeric(rtBatch[i], "temperature") /\ Numeric(rtBatch[i], "humidity"))
                 => /\ PlacedValid(i) <=>
                          /\ Within(rtBatch[i].temperature, (0 - 20) * 10, 60 * 10)
                          /\ Within(rtBatch[i].humidity, 0, 100 * 10)
                    /\ PlacedInvalid(i) <=> ~PlacedValid(i)

\* Records on the lower and on the upper bounds were placed in valid, and a
\* record out of both ranges in invalid.
BoundsAreValid ==
    /\ rtPc = "done" /\ rtPhase = "validated"
    /\ Len(rtBatch) = 2
    /\ Get(rtBatch[1], "temperature", None) = Num(TempMin) /\ Get(rtBatch[1], "humidity", None) = Num(HumidityMin)
    /\ Get(rtBatch[2], "temperature", None) = Num(TempMax) /\ Get(rtBatch[2], "humidity", None) = Num(HumidityMax)
    /\ Len(rtValid) = 2

\* C26: in the validated phase a missing, null or non-numeric temperature or
\* humidity counts as 0.0 in the range check: the record is valid exactly
\* when its other field is in range or defective too, and validation never
\* raises.
DefectsCountAsZero ==
    (rtPc = "done" /\ rtPhase = "validated")
        => /\ ~rtRaised
           /\ \A i \in DOMAIN rtBatch :
                 (Defect(rtBatch[i], "temperature") \/ Defect(rtBatch[i], "humidity"))
                    => (PlacedValid(i) <=>
                          /\ Defect(rtBatch[i], "temperature")
                                \/ Within(rtBatch[i].temperature, (0 - 20) * 10, 60 * 10)
                          /\ Defect(rtBatch[i], "humidity")
                                \/ Within(rtBatch[i].humidity, 0, 100 * 10))

\* A record without temperature and a record whose humidity is a text were
\* both placed in valid.
DefectiveRecordsValid ==
    /\ rtPc = "done" /\ rtPhase = "validated"
    /\ Len(rtBatch) = 2 /\ Len(rtValid) = 2
    /\ "temperature" \notin DOMAIN rtBatch[1]
    /\ Get(rtBatch[2], "humidity", None) = Text

SchematizedNeverInvalidAndStaged ==
    /\ (rtPc = "done" /\ rtPhase = "schematized") => rtInvalid = <<>>
    /\ (rtPc = "done" /\ rtPhase \in {"schematized", "validated"})
          => \A out \in Range(rtValid) \cup Range(rtInvalid) :
                /\ "pipeline_metadata" \in DOMAIN out
                /\ out.pipeline_metadata.stage = rtPhase

\* The schematized phase returned a record out of both ranges as valid.
SchematizedKeptOutOfRange ==
    /\ rtPc = "done" /\ rtPhase = "schematized"
    /\ Len(rtBatch) = 2 /\ Len(rtValid) = 2
    /\ rtValid[1].temperature = Num(TempMax + 1)
    /\ rtValid[1].humidity = Num(HumidityMax + 1)

\* C29: every named phase has one routing outcome and an alias has the
\* outcome of its primary: raw and ingestion give ingestion, schematized
\* schematized, validated SPLIT, aggregated aggregated, anomaly and anomalies
\* anomalies, enriched and filtered enriched; only validated gives SPLIT.
PhaseOutcomes ==
    rtPc = "done"
        => /\ rtPhase \in {"raw", "ingestion"} => rtBucket = "ingestion"
           /\ rtPhase = "schematized" => rtBucket = "schematized"
           /\ rtPhase = "validated" => rtBucket = "SPLIT"
           /\ rtPhase = "aggregated" => rtBucket = "aggregated"
           /\ rtPhase \in {"anomaly", "anomalies"} => rtBucket = "anomalies"
           /\ rtPhase \in {"enriched", "filtered"} => rtBucket = "enriched"
           /\ rtBucket = "SPLIT" => rtPhase = "validated"

\* The alias filtered was resolved to the outcome of enriched.
FilteredGoesToEnriched ==
    /\ rtPc = "done" /\ rtPhase = "filtered" /\ rtBucket = "enriched"
    /\ rtBatch # <<>>

\* C30: routing is per record: for every phase and every way to cut the
\* batch in two, X followed by Y, the lists returned for the batch are the
\* lists for X followed by the lists for Y (at the same clock reading).
RoutingIsPerRecord ==
    rtPc = "done"
        => \A k \in 0..Len(rtBatch) :
              LET X == ValidateAndSplitData(rtPhase, SubSeq(rtBatch, 1, k), rtAt)
                  Y == ValidateAndSplitData(rtPhase, SubSeq(rtBatch, k + 1, Len(rtBatch)), rtAt)
              IN  /\ rtValid = X.valid \o Y.valid
                  /\ rtInvalid = X.invalid \o Y.invalid

\* The validated phase split a batch whose first record is invalid and whose
\* second is valid.
MixedBatchSplit ==
    /\ rtPc = "done" /\ rtPhase = "validated"
    /\ Len(rtBatch) = 2
    /\ SourceIds(rtInvalid) = <<1>> /\ SourceIds(rtValid) = <<2>>

(* ==================== properties of the metadata generator ============== *)
\* Every configuration the model can hold: pairs in any order, no key twice.
Configs ==
    UNION { {c \in [1..n -> [key : ConfigKeyNames, value : ConfigValues]] :
                \A i, j \in 1..n : i # j => c[i].key # c[j].key} : n \in 0..MaxConfigKeys }

\* C31: transformation_hash depends only on the phase, the pipeline version
\* and the set of config key names: any configuration with the same key
\* names, whatever its values and the order of its keys, gives the same hash
\* and the same metadata for the same phase, version, node, commit and clock
\* reading; no config value is in the metadata.
HashIgnoresConfigValues ==
    mdPc = "done"
        => \A c \in Configs :
              KeySet(c) = KeySet(mdConfig)
                 => /\ generate_transformation_hash(mdCall.pipeline_type, c, mdEnv)
                          = mdOut.transformation_hash
                    /\ create_pipeline_metadata(mdCall.pipeline_type, mdCall.node_id, c, mdEnv,
                                                mdCall.git_sha, mdCall.at) = mdOut

\* Metadata was made from a configuration whose two keys were inserted out
\* of order and one of which is a secret.
HashedUnsortedSecretConfig ==
    /\ mdPc = "done"
    /\ Keys(mdConfig) = <<"sqlite", "secret_access_key">>
    /\ mdOut.transformation_hash
          = Sha256(<<"config_keys", <<"secret_access_key", "sqlite">>,
                     "pipeline_type", mdCall.pipeline_type, "version", "0.9.0">>)

(* ==================== properties of the execution log ================== *)
\* C32: get_execution_history(limit) returns the min(limit, n) most recently
\* recorded of the n executions, the newest first, each with the phase,
\* the record count, the destinations list and the job id it was recorded
\* with; without a limit it returns them all.
ExecutionHistoryNewestFirst ==
    mgrHistory.taken
        => LET n == mgrHistory.n
               k == IF mgrHistory.limit = NoLimit THEN n
                    ELSE IF mgrHistory.limit[1] < n THEN mgrHistory.limit[1] ELSE n
           IN  /\ Len(mgrHistory.rows) = k
               /\ \A i \in 1..k :
                     /\ mgrHistory.rows[i].job_id = <<"job_", n + 1 - i>>
                     /\ mgrHistory.rows[i].pipeline_type = mgrExecs[n + 1 - i].pipeline_type
                     /\ mgrHistory.rows[i].records_processed
                            = mgrExecs[n + 1 - i].records_processed
                     /\ \E c \in ExecCalls :
                            /\ c[1] = mgrHistory.rows[i].pipeline_type
                            /\ c[3] = mgrHistory.rows[i].s3_locations

\* Three executions were recorded and a history of limit 2 has the third
\* and the second.
LastTwoOfThree ==
    /\ mgrHistory.taken /\ mgrHistory.limit = Limit(2) /\ mgrHistory.n = 3
    /\ Len(mgrHistory.rows) = 2
    /\ mgrHistory.rows[1].job_id = <<"job_", 3>>
    /\ mgrHistory.rows[2].job_id = <<"job_", 2>>

(* ================= properties of the canonical transform =============== *)
\* C33: in the schematized and validated phases every output record keeps
\* every field of its input record with its value (the original id
\* included), next to the derived turbine_id and the pipeline_metadata.
TransformKeepsInputFields ==
    (rtPc = "done" /\ rtPhase \in {"schematized", "validated"})
        => \A out \in Range(rtValid) \cup Range(rtInvalid) :
              /\ "turbine_id" \in DOMAIN out
              /\ "pipeline_metadata" \in DOMAIN out
              /\ \A k \in DOMAIN rtBatch[SourceId(out)] :
                    /\ k \in DOMAIN out
                    /\ out[k] = rtBatch[SourceId(out)][k]

(* ==================== properties of read_sensor_data =================== *)
\* C34: a read with limit L >= 0 and no offset on a table of n rows returns
\* exactly min(L, n) rows, and no read fails because an offset was passed.
ReadReturnsAtMostLimit ==
    stRead.called
        => /\ stRead.err = NoErr
           /\ (stRead.limit # NoneInt /\ stRead.offset = NoneInt)
                 => Len(stRead.result)
                      = IF stRead.limit[1] < stRead.n THEN stRead.limit[1] ELSE stRead.n

(* ===================== properties of the migration ===================== *)
\* C35: once an initialize has run to its end on an existing database, at
\* most one pipeline_config row is active, also when the table predates the
\* is_active column and already holds several rows.
AtMostOneActiveAfterInitialize ==
    (\E p \in Procs : pc[p] = "idle" /\ op[p] = "none" /\ lastSet = 0)
        => Cardinality(ActiveIds(rows)) <= 1

(* =================== properties of a repeated initialize ================ *)
\* C36: initialize on a database that already has an active row adds no
\* row and changes none: its schema step and its count step leave the
\* table as it is, the count step ends the initialisation without an
\* insert, and the table keeps an active row once it has one, so the
\* current phase after the initialize is the one that was set before it.
InitializeIdempotent ==
    [][\A p \in Procs :
          (ActiveIds(rows) # {} /\ pc'[p] # pc[p])
              => /\ pc[p] = "new" => (pc'[p] = "init_count" /\ rows' = rows)
                 /\ pc[p] = "init_count"
                       => /\ pc'[p] = "idle"
                          /\ rows' = rows
                          /\ SelectCurrent(rows', now').dict = SelectCurrent(rows, now).dict
                 /\ ActiveIds(rows') # {}]_vars

\* A second instance is being constructed on a file in which set_pipeline
\* has made validated the active phase: its schema step has run and the
\* table still holds the default row, deactivated, and the validated row.
SecondInstanceOnSetPhase ==
    \E p \in Procs :
        /\ pc[p] = "init_count"
        /\ Len(rows) = 2
        /\ rows[1].pipeline_type = "raw" /\ rows[1].is_active = 0
        /\ rows[2].pipeline_type = "validated" /\ rows[2].is_active = 1

(* ============== properties of errors of the caller's code ============== *)
\* C37: an error raised by the caller's code while it holds the scoped
\* connection, a busy/locked error of a query included, reaches the caller
\* as that same error, and once the caller's code has started the scoped
\* operation neither sleeps for a retry nor connects again.
CallerErrorPropagatesUnretried ==
    rdEntered
        => /\ rdPc \notin {"sleep", "connect"}
           /\ (rdPc = "done" /\ rdOutcome.kind = "raised")
                 => rdOutcome.err = IF rdStmt = "RAISE" THEN ErrCaller
                                    ELSE Execute(ConnectionMode, rdStmt, sensorRows).err

(* ============ properties of a stream beside the producer =============== *)
\* How often the row r is among the rows yielded so far.
TimesYielded(r) ==
    Cardinality({i \in DOMAIN Concat(stYielded) : Concat(stYielded)[i] = r})

\* C38: a stream with batch_size >= 1 and the default ordering yields every
\* row that was in the table when it started exactly once, also when the
\* producer inserts rows between two batches: no such row is in two
\* batches, and when the stream has ended none is missing.
StreamYieldsSnapshotOnce ==
    (stPc \in {"running", "ended"} /\ stBatch >= 1)
        => \A i \in DOMAIN stSnapshot :
              /\ TimesYielded(stSnapshot[i]) <= 1
              /\ stPc = "ended" => TimesYielded(stSnapshot[i]) = 1

(* ======================= properties of get_history ===================== *)
\* C39: get_history(limit) returns the min(limit, n) most recent of the n
\* configuration rows, newest first in the order the set_pipeline calls
\* committed (the order of the ids), also when several rows were created
\* within the same second, and its first entry is the active row.
HistoryNewestFirst ==
    hist.taken
        => LET k == IF hist.limit < hist.n THEN hist.limit ELSE hist.n
           IN  /\ Len(hist.result) = k
               /\ \A i \in 1..k :
                     /\ hist.result[i].pipeline_type = rows[hist.n + 1 - i].pipeline_type
                     /\ hist.result[i].created_at = rows[hist.n + 1 - i].created_at
                     /\ hist.result[i].created_by = rows[hist.n + 1 - i].created_by
                     /\ hist.result[i].reason = rows[hist.n + 1 - i].reason
               /\ k >= 1 => hist.result[1].is_active = 1

====
